---- MODULE Spec2Model ----
(***************************************************************************)
(* A model of gval, the composable expression language: composition of    *)
(* Languages, the operator-precedence parser with its stage stack, the    *)
(* compiled Evaluables (infix, short-circuit, ternary) and the selector   *)
(* that resolves variable paths.                                           *)
(***************************************************************************)
EXTENDS Integers, Sequences, FiniteSets, TLC

VARIABLES
    langA, langB, langC,  \* three Languages handed to NewLanguage
    composed,             \* the Languages NewLanguage has produced so far
    evaluable,            \* a compiled Evaluable
    parameter,            \* the input value an Evaluable is invoked with
    ctx,                  \* the context.Context an Evaluable is invoked with
    outcome,              \* what each invocation returned and what it ran
    source,               \* the expression text the Parser scans, rune by rune
    pos,                  \* the scanner's position: the next rune to read
    lastScan,             \* the token the last Scan returned
    camouflage,           \* whether the last token was handed back (Camouflage)
    parser,               \* the Parser's Language and the settings of its scanner
    operators,            \* the operators the Parser's Language registers
    frames,               \* the parser's calls in progress, innermost last
    ret,                  \* the Evaluable a parse function just returned
    parsed                \* what Parser.parse returned

langVars == <<langA, langB, langC, composed>>

evalVars == <<evaluable, parameter, ctx, outcome>>

scanVars == <<source, pos, lastScan, camouflage>>

parserVars == <<source, pos, lastScan, camouflage, parser, operators, frames, ret,
               parsed>>

vars == <<langA, langB, langC, composed, evaluable, parameter, ctx, outcome,
          source, pos, lastScan, camouflage, parser, operators, frames, ret,
          parsed>>

----------------------------------------------------------------------------
(* Languages and their composition                                         *)

\* largest definition identity (or precedence value) a Language may hold
MaxDef == 2

\* a key with no definition in a Language
Absent == -1

\* names under which a Language registers something: an infix operator, its
\* precedence, a prefix extension keyed by a token kind, a constant or function
LanguageKeys ==
    { <<"operator", "+">>, <<"precedence", "+">>, <<"prefix", "Int">> }

Language == [LanguageKeys -> {Absent} \cup (1..MaxDef)]

emptyLanguage == [k \in LanguageKeys |-> Absent]

\* one base merged into the language built so far: every name the base
\* defines replaces what was there
merge(l, base) ==
    [k \in LanguageKeys |-> IF base[k] # Absent THEN base[k] ELSE l[k]]

RECURSIVE mergeFrom(_, _, _)
mergeFrom(l, bases, i) ==
    IF i > Len(bases) THEN l
    ELSE mergeFrom(merge(l, bases[i]), bases, i + 1)

NewLanguage(bases) == mergeFrom(emptyLanguage, bases, 1)

\* the extensions composed before the language they extend
FullExtensionsFirst(l, extensions) ==
    IF Len(extensions) = 0 THEN l ELSE NewLanguage(extensions \o <<l>>)

\* Full(extensions...) and EvaluateWithContext(..., opts...): the extensions
\* are composed after the language they extend
Full(l, extensions) ==
    IF Len(extensions) = 0 THEN l ELSE NewLanguage(<<l>> \o extensions)

lookup(l, k) == l[k]

NotComposed == <<>>

\* the settings of a text/scanner.Scanner, and the Parser a Language starts
GoWhitespace == "GoWhitespace"
GoTokens == "GoTokens"
defaultIsIdentRune == "default"

\* a Language that registers no operator
noOperators == <<>>

newParser(l) ==
    [Language |-> l, Whitespace |-> GoWhitespace, Mode |-> GoTokens,
     IsIdentRune |-> defaultIsIdentRune]

LangInit ==
    /\ langA \in Language
    /\ langB \in Language
    /\ langC \in Language
    /\ composed = [n \in {"AB", "ABC", "AB_C"} |-> NotComposed]
    /\ evaluable = <<"none">>
    /\ parameter = <<"nil">>
    /\ ctx = "Background"
    /\ outcome = <<>>
    /\ source = <<>>
    /\ pos = 1
    /\ lastScan = [kind |-> "none", text |-> <<>>]
    /\ camouflage = FALSE
    /\ parser = newParser(emptyLanguage)
    /\ operators = noOperators
    /\ frames = <<>>
    /\ ret = <<"none">>
    /\ parsed = <<>>

\* Full(B) where A is the language extended: NewLanguage(A, B)
ComposeAB ==
    /\ composed["AB"] = NotComposed
    /\ composed' = [composed EXCEPT !["AB"] = <<Full(langA, <<langB>>)>>]
    /\ UNCHANGED <<langA, langB, langC, evalVars, parserVars>>

\* NewLanguage(A, B, C)
ComposeABC ==
    /\ composed["ABC"] = NotComposed
    /\ composed' = [composed EXCEPT !["ABC"] = <<NewLanguage(<<langA, langB, langC>>)>>]
    /\ UNCHANGED <<langA, langB, langC, evalVars, parserVars>>

\* NewLanguage(NewLanguage(A, B), C): the composition of a composition
ComposeNested ==
    /\ composed["AB"] # NotComposed
    /\ composed["AB_C"] = NotComposed
    /\ composed' = [composed EXCEPT
                        !["AB_C"] = <<NewLanguage(<<composed["AB"][1], langC>>)>>]
    /\ UNCHANGED <<langA, langB, langC, evalVars, parserVars>>

LangNext == ComposeAB \/ ComposeABC \/ ComposeNested

SpecLang == LangInit /\ [][LangNext]_vars

----------------------------------------------------------------------------
\* C1: every name that both A and B define resolves, in NewLanguage(A, B), to
\* B's definition: the last Language in composition order wins
RightBiasOverride ==
    composed["AB"] # NotComposed =>
        \A k \in LanguageKeys :
            (langA[k] # Absent /\ langB[k] # Absent) =>
                lookup(composed["AB"][1], k) = langB[k]

RightBiasOverrideWitness ==
    /\ composed["AB"] # NotComposed
    /\ \E k \in LanguageKeys :
        /\ langA[k] # Absent
        /\ langB[k] # Absent
        /\ langA[k] # langB[k]
        /\ lookup(composed["AB"][1], k) = langB[k]

\* C2: composition is associative: every name looks up the same definition and
\* the same precedence in NewLanguage(A, B, C) and in
\* NewLanguage(NewLanguage(A, B), C)
ComposeAssociative ==
    (composed["ABC"] # NotComposed /\ composed["AB_C"] # NotComposed) =>
        \A k \in LanguageKeys :
            lookup(composed["ABC"][1], k) = lookup(composed["AB_C"][1], k)

ComposeAssociativeWitness ==
    /\ composed["ABC"] # NotComposed
    /\ composed["AB_C"] # NotComposed
    /\ \E k \in LanguageKeys :
        /\ langA[k] # Absent /\ langB[k] # Absent /\ langC[k] = Absent
        /\ langA[k] # langB[k]
        /\ lookup(composed["ABC"][1], k) = langB[k]
    /\ \E k \in LanguageKeys :
        /\ k[1] = "precedence"
        /\ langB[k] # Absent /\ langC[k] # Absent /\ langB[k] # langC[k]
        /\ lookup(composed["AB_C"][1], k) = langC[k]

----------------------------------------------------------------------------
(* Values and compiled Evaluables                                          *)

\* largest number among the constants an expression is evaluated over
MaxNum == 1

Nil == <<"nil">>
Bool(b) == <<"bool", b>>
Num(n) == <<"num", n>>
Str(s) == <<"str", s>>
Arr(s) == <<"arr", s>>
\* an int handed in by the caller; the numbers of an expression are float64
GoInt(n) == <<"int", n>>
\* a float64 the model does not follow: a fraction, an infinity, NaN or an
\* integer beyond Tracked
Inexact == <<"float", "inexact">>

\* strings are sequences of runes
Empty == <<>>
True == <<"t", "r", "u", "e">>
TRUEUpper == <<"T", "R", "U", "E">>
False == <<"f", "a", "l", "s", "e">>
FALSEUpper == <<"F", "A", "L", "S", "E">>

Values ==
    {Nil, Bool(FALSE), Bool(TRUE), Str(Empty), Str(<<"a">>), Str(True), Arr(<<>>)}
        \cup {Num(n) : n \in 0..MaxNum}

\* reflect.Value.IsZero of a non-nil interface value: false, 0 and "" are the
\* zero values of their types; a slice built by a literal is never the nil slice
IsZero(v) ==
    \/ v = Bool(FALSE)
    \/ v = Num(0)
    \/ v = Str(Empty)

NoError == <<>>

DecimalDigits == {"0", "1", "2", "3", "4", "5", "6", "7", "8", "9"}

DigitValue ==
    [d \in DecimalDigits |->
        CASE d = "0" -> 0 [] d = "1" -> 1 [] d = "2" -> 2 [] d = "3" -> 3
          [] d = "4" -> 4 [] d = "5" -> 5 [] d = "6" -> 6 [] d = "7" -> 7
          [] d = "8" -> 8 [] d = "9" -> 9]

DigitRune == [n \in 0..9 |-> CHOOSE d \in DecimalDigits : DigitValue[d] = n]

\* the value of a run of decimal digits
RECURSIVE digitsValue(_)
digitsValue(text) ==
    IF text = <<>> THEN 0
    ELSE 10 * digitsValue(SubSeq(text, 1, Len(text) - 1)) + DigitValue[text[Len(text)]]

\* convertToBool: <<ok, b>>
convertToBool(v) ==
    CASE v[1] = "bool" -> <<TRUE, v[2]>>
      [] v[1] = "num" -> <<TRUE, v[2] # 0>>
      [] v[1] = "float" -> <<TRUE, TRUE>>
      [] v \in {Str(True), Str(TRUEUpper)} -> <<TRUE, TRUE>>
      [] v \in {Str(False), Str(FALSEUpper)} -> <<TRUE, FALSE>>
      [] OTHER -> <<FALSE, FALSE>>

\* operator names are the runes the scanner hands over one by one
AND == <<"&", "&">>
OR == <<"|", "|">>
COALESCE == <<"?", "?">>
PLUS == <<"+">>
TIMES == <<"*">>
MOD == <<"%">>
POWER == <<"*", "*">>
ELEMENTOF == <<"i", "n">>

\* the integers the model follows exactly; a float64 result beyond them is
\* kept as Inexact
Tracked == 100000

Abs(n) == IF n < 0 THEN -n ELSE n

float64(n) == IF Abs(n) > Tracked THEN Inexact ELSE Num(n)

product(a, b) ==
    IF a[1] = "float" \/ b[1] = "float" THEN Inexact
    ELSE IF a[2] # 0 /\ Abs(b[2]) > Tracked \div Abs(a[2]) THEN Inexact
    ELSE Num(a[2] * b[2])

\* math.Pow for a whole exponent
RECURSIVE Pow(_, _)
Pow(a, b) ==
    IF b = 0 THEN Num(1)
    ELSE IF a \in {0, 1} THEN Num(a)
    ELSE IF b > 32 /\ Abs(a) > 1 THEN Inexact
    ELSE product(Num(a), Pow(a, b - 1))

\* math.Mod: the remainder has the sign of the dividend
FMod(a, b) ==
    IF a >= 0 THEN a % Abs(b) ELSE -((-a) % Abs(b))

\* the InfixShortCircuit predicates: <<result, decided>>
shortCircuitNever(op, a) == <<a, FALSE>>

shortCircuit(op, a) ==
    CASE op = AND -> <<Bool(FALSE), a = Bool(FALSE)>>
      [] op = OR -> <<Bool(TRUE), a = Bool(TRUE)>>
      [] op = COALESCE -> <<a, a # Nil /\ ~IsZero(a)>>
      [] OTHER -> <<a, FALSE>>

hasShortCircuit(op) == op \in {AND, OR, COALESCE}

coalesce(a, b) == IF a = Nil \/ IsZero(a) THEN b ELSE a

invalidOperation(op, a, b) == <<"invalid operation", a[1], op, b[1]>>

\* InfixBoolOperator: both operands are converted to bool
infixBool(op, a, b) ==
    LET ca == convertToBool(a)
        cb == convertToBool(b)
    IN IF ca[1] /\ cb[1]
       THEN [val |-> Bool(IF op = AND THEN ca[2] /\ cb[2] ELSE ca[2] \/ cb[2]),
             err |-> NoError]
       ELSE [val |-> Nil, err |-> invalidOperation(op, a, b)]

\* InfixNumberOperator of the arithmetic language
infixNumber(op, a, b) ==
    IF a[1] = "num" /\ b[1] = "num"
    THEN CASE op = PLUS -> [val |-> float64(a[2] + b[2]), err |-> NoError]
           [] op = TIMES -> [val |-> product(a, b), err |-> NoError]
           [] op = MOD ->
                [val |-> IF b[2] = 0 THEN Inexact ELSE Num(FMod(a[2], b[2])),
                 err |-> NoError]
           [] op = POWER ->
                [val |-> IF b[2] < 0 THEN Inexact ELSE Pow(a[2], b[2]),
                 err |-> NoError]
    ELSE IF a[1] \in {"num", "float"} /\ b[1] \in {"num", "float"}
    THEN [val |-> Inexact, err |-> NoError]
    ELSE [val |-> Nil, err |-> invalidOperation(op, a, b)]

----------------------------------------------------------------------------
(* The custom filter operators cfa and cfm                                 *)

CFA == <<"c", "f", "a">>
CFM == <<"c", "f", "m">>

\* the condition names matchesCondition knows, and the further names its
\* documentation lists
EQUAL == <<"e", "q", "u", "a", "l">>
EQ == <<"e", "q">>
EQEQ == <<"=", "=">>
EQUALS == <<"e", "q", "u", "a", "l", "s">>
NOTEQUAL == <<"n", "o", "t", "e", "q", "u", "a", "l">>
NE == <<"n", "e">>
NEQ == <<"n", "e", "q">>
BANGEQ == <<"!", "=">>
STARTSWITH == <<"s", "t", "a", "r", "t", "s", "w", "i", "t", "h">>
SW == <<"s", "w">>
ENDSWITH == <<"e", "n", "d", "s", "w", "i", "t", "h">>
EW == <<"e", "w">>
CONTAINS == <<"c", "o", "n", "t", "a", "i", "n", "s">>
CO == <<"c", "o">>
C == <<"c">>

\* strings.HasPrefix, strings.HasSuffix, strings.Contains
HasPrefix(value, target) ==
    Len(target) <= Len(value) /\ SubSeq(value, 1, Len(target)) = target

HasSuffix(value, target) ==
    /\ Len(target) <= Len(value)
    /\ SubSeq(value, Len(value) - Len(target) + 1, Len(value)) = target

Contains(value, target) ==
    \E i \in 0..(Len(value) - Len(target)) :
        SubSeq(value, i + 1, i + Len(target)) = target

\* every name is taken as the documentation lists it
matchesConditionAsDocumented(value, target, operator) ==
    CASE operator \in {EQUAL, EQ, EQEQ, EQUALS} -> value = target
      [] operator \in {NOTEQUAL, NEQ, BANGEQ} -> value # target
      [] operator \in {STARTSWITH, SW} -> HasPrefix(value, target)
      [] operator \in {ENDSWITH, EW} -> HasSuffix(value, target)
      [] operator \in {CONTAINS, C} -> Contains(value, target)
      [] OTHER -> value = target

matchesCondition(value, target, operator) ==
    CASE operator \in {EQUAL, EQ, EQEQ} -> value = target
      [] operator \in {NOTEQUAL, NE, BANGEQ} -> value # target
      [] operator \in {STARTSWITH, SW} -> HasPrefix(value, target)
      [] operator \in {ENDSWITH, EW} -> HasSuffix(value, target)
      [] operator \in {CONTAINS, CO} -> Contains(value, target)
      [] OTHER -> value = target

\* slices of a fixed element type: [][]interface{} holds sequences and
\* []map[string]interface{} holds string-keyed maps
SliceOfSlices(s) == <<"[][]interface{}", s>>
SliceOfMaps(s) == <<"[]map[string]interface{}", s>>

\* s[0], s[i] = s[i], s[0] on the slice's own elements (i counts from 1 here)
swap(s, i) == [s EXCEPT ![1] = s[i], ![i] = s[1]]

\* the first index a loop over the slice stops at
first(s, matches(_)) ==
    IF \E i \in 1..Len(s) : matches(s[i])
    THEN CHOOSE i \in 1..Len(s) : matches(s[i]) /\ \A j \in 1..(i - 1) : ~matches(s[j])
    ELSE 0

\* what the filter operators return: the result, and the slice a after the call
unfiltered(a) == [val |-> Bool(FALSE), err |-> NoError, slice |-> a]

filtered(a, i) ==
    IF i = 0 THEN unfiltered(a)
    ELSE [val |-> Bool(TRUE), err |-> NoError, slice |-> <<a[1], swap(a[2], i)>>]

\* the slice is left as it was
cfaOperatorKeepsOrder(a, b) ==
    [val |-> Bool(FALSE), err |-> NoError, slice |-> a]

cfaOperator(a, b) ==
    IF b[1] # "arr" \/ Len(b[2]) < 2 THEN unfiltered(a)
    ELSE IF b[2][1][1] # "str" \/ b[2][2][1] # "str" THEN unfiltered(a)
    ELSE LET targetValue == b[2][1][2]
             operator == b[2][2][2]
             matchesValue(val) ==
                val[1] = "str" /\ matchesCondition(val[2], targetValue, operator)
             matchesElem(elem) == \E j \in 1..Len(elem[2]) : matchesValue(elem[2][j])
         IN CASE a[1] = "[][]interface{}" -> filtered(a, first(a[2], matchesElem))
              [] a[1] = "arr" -> filtered(a, first(a[2], matchesValue))
              [] OTHER -> unfiltered(a)

cfmOperator(a, b) ==
    IF b[1] # "arr" \/ Len(b[2]) < 3 THEN unfiltered(a)
    ELSE IF b[2][1][1] # "str" \/ b[2][2][1] # "str" \/ b[2][3][1] # "str"
    THEN unfiltered(a)
    ELSE LET fieldName == b[2][1][2]
             operator == b[2][2][2]
             targetValue == b[2][3][2]
             matchesMap(m) ==
                /\ fieldName \in DOMAIN m[2]
                /\ m[2][fieldName][1] = "str"
                /\ matchesCondition(m[2][fieldName][2], targetValue, operator)
             matchesItem(item) ==
                item[1] = "map[string]interface{}" /\ matchesMap(item)
         IN CASE a[1] = "[]map[string]interface{}" -> filtered(a, first(a[2], matchesMap))
              [] a[1] = "arr" -> filtered(a, first(a[2], matchesItem))
              [] OTHER -> unfiltered(a)

----------------------------------------------------------------------------
\* reflect.DeepEqual of two values: the same dynamic type and the same
\* contents, element by element
DeepEqual(a, b) == a[1] = b[1] /\ a = b

\* only the first element is compared
inArrayFirstOnly(a, b) ==
    IF b[1] # "arr"
    THEN [val |-> Nil,
          err |-> <<"expected type []interface{} for in operator but got", b[1]>>]
    ELSE [val |-> Bool(Len(b[2]) > 0 /\ DeepEqual(a, b[2][1])), err |-> NoError]

inArray(a, b) ==
    IF b[1] # "arr"
    THEN [val |-> Nil,
          err |-> <<"expected type []interface{} for in operator but got", b[1]>>]
    ELSE [val |-> Bool(\E i \in 1..Len(b[2]) : DeepEqual(a, b[2][i])),
          err |-> NoError]

\* the == and != of base
baseEqual(a, b) ==
    IF a = Nil /\ b = Nil THEN Bool(TRUE)
    ELSE IF a = Nil \/ b = Nil THEN Bool(FALSE)
    ELSE Bool(DeepEqual(a, b))

baseNotEqual(a, b) ==
    IF a = Nil /\ b = Nil THEN Bool(FALSE)
    ELSE IF a = Nil \/ b = Nil THEN Bool(TRUE)
    ELSE Bool(~DeepEqual(a, b))

\* the eager binary form registered under an operator's name
infixOperator(op, a, b) ==
    CASE op \in {AND, OR} -> infixBool(op, a, b)
      [] op = COALESCE -> [val |-> coalesce(a, b), err |-> NoError]
      [] op = ELEMENTOF -> inArray(a, b)
      [] op = CFA -> [val |-> cfaOperator(a, b).val, err |-> cfaOperator(a, b).err]
      [] op = CFM -> [val |-> cfmOperator(a, b).val, err |-> cfmOperator(a, b).err]
      [] op = EQEQ -> [val |-> baseEqual(a, b), err |-> NoError]
      [] op = BANGEQ -> [val |-> baseNotEqual(a, b), err |-> NoError]
      [] OTHER -> infixNumber(op, a, b)

\* Evaluables are the closures the parser builds, kept as terms:
\*   <<"const", v>>        p.Const(v)
\*   <<"fail", e>>         an Evaluable that returns the error e
\*   <<"infix", op, a, b>> the infix builder of op applied to a and b
\*   <<"if", e, a, b>>     the closure parseIf returns
\*   <<"var", behavior, path>>  the closure WithMissingFieldBehavior(behavior)
\*                         builds for a path of key Evaluables
\*   <<"array", evals>>    the closure parseJSONArray returns
\*   <<"tolerant", op, a, b>>  a comparison of enhancedComparisons applied
\*                         to a and b
\*   <<"object", evals>>   the closure parseJSONObject returns, evals being
\*                         pairs <<key, value>>
Const(v) == <<"const", v>>

\* the missing-field policies of WithMissingFieldBehavior
ErrorOnMissingField == 0
FalseOnMissingField == 1
NilOnMissingField == 2

\* composite values: the two map types, slices (Arr), values that implement
\* Selector, and records reached by reflection
StringMap(f) == <<"map[string]interface{}", f>>
InterfaceMap(f) == <<"map[interface{}]interface{}", f>>
SelectorValue(f) == <<"Selector", f>>
Struct(f) == <<"struct", f>>

\* strings.Join(keyPath, ".")
RECURSIVE Join(_)
Join(keyPath) ==
    IF Len(keyPath) = 0 THEN <<>>
    ELSE IF Len(keyPath) = 1 THEN keyPath[1]
    ELSE keyPath[1] \o <<".">> \o Join(Tail(keyPath))

\* the error names the last key only
handleMissingFieldNamesLastKey(behavior, keyPath) ==
    CASE behavior = FalseOnMissingField -> [val |-> Bool(FALSE), err |-> NoError]
      [] behavior = NilOnMissingField -> [val |-> Nil, err |-> NoError]
      [] OTHER -> [val |-> Nil,
                   err |-> <<"unknown parameter", keyPath[Len(keyPath)]>>]

\* every policy reports the missing key as an error
handleMissingFieldAlwaysFails(behavior, keyPath) ==
    [val |-> Nil, err |-> <<"unknown parameter", Join(keyPath)>>]

handleMissingField(behavior, keyPath) ==
    CASE behavior = FalseOnMissingField -> [val |-> Bool(FALSE), err |-> NoError]
      [] behavior = NilOnMissingField -> [val |-> Nil, err |-> NoError]
      [] OTHER -> [val |-> Nil, err |-> <<"unknown parameter", Join(keyPath)>>]

\* strconv.Atoi: an optional sign and at least one decimal digit
atoiDigits(k) == IF k # <<>> /\ k[1] \in {"+", "-"} THEN Tail(k) ELSE k

atoiOk(k) ==
    /\ atoiDigits(k) # <<>>
    /\ \A i \in 1..Len(atoiDigits(k)) : atoiDigits(k)[i] \in DecimalDigits

Atoi(k) ==
    IF k[1] = "-" THEN -digitsValue(atoiDigits(k)) ELSE digitsValue(atoiDigits(k))

\* the decimal digits of a natural number
RECURSIVE formatDigits(_)
formatDigits(n) ==
    IF n < 10 THEN <<DigitRune[n]>>
    ELSE Append(formatDigits(n \div 10), DigitRune[n % 10])

\* a key value as the string EvalStrings hands to the selector
keyString(v) ==
    CASE v[1] = "str" -> v[2]
      [] v[1] = "num" ->
            IF v[2] < 0 THEN <<"-">> \o formatDigits(-v[2]) ELSE formatDigits(v[2])
      [] v[1] = "bool" -> IF v[2] THEN True ELSE False
      [] v = Nil -> <<"<", "n", "i", "l", ">">>

\* reflectSelect: the field of a record; a value without fields yields nothing
reflectSelect(k, o) ==
    IF o[1] = "struct" /\ k \in DOMAIN o[2]
    THEN <<o[2][k], TRUE>>
    ELSE <<Nil, FALSE>>

\* the loop over the keys of WithMissingFieldBehavior's Evaluable, from key i
\* with v the value reached so far
RECURSIVE selectKeys(_, _, _, _)
selectKeys(behavior, keys, i, v) ==
    IF i > Len(keys) THEN [val |-> v, err |-> NoError]
    ELSE LET k == keys[i]
         IN CASE v[1] = "Selector" ->
                    IF k \in DOMAIN v[2]
                    THEN selectKeys(behavior, keys, i + 1, v[2][k])
                    ELSE [val |-> Nil,
                          err |-> <<"failed to select", k, <<"SelectGVal", k>>>>]
              [] v[1] \in {"map[interface{}]interface{}", "map[string]interface{}"} ->
                    IF k \in DOMAIN v[2]
                    THEN selectKeys(behavior, keys, i + 1, v[2][k])
                    ELSE handleMissingField(behavior, SubSeq(keys, 1, i))
              [] v[1] = "arr" ->
                    IF atoiOk(k) /\ Atoi(k) >= 0 /\ Len(v[2]) > Atoi(k)
                    THEN selectKeys(behavior, keys, i + 1, v[2][Atoi(k) + 1])
                    ELSE handleMissingField(behavior, SubSeq(keys, 1, i))
              [] OTHER ->
                    IF reflectSelect(k, v)[2]
                    THEN selectKeys(behavior, keys, i + 1, reflectSelect(k, v)[1])
                    ELSE handleMissingField(behavior, SubSeq(keys, 1, i))

----------------------------------------------------------------------------
(* The comparison operators of enhancedComparisons                         *)

GT == <<">">>
GE == <<">", "=">>
LT == <<"<">>
LE == <<"<", "=">>

\* convertToFloat: <<ok, number>>; a number converts directly and a string
\* of decimal digits is parsed
convertToFloat(v) ==
    CASE v[1] \in {"num", "int"} -> <<TRUE, v[2]>>
      [] v[1] = "str" /\ atoiOk(v[2]) -> <<TRUE, Atoi(v[2])>>
      [] OTHER -> <<FALSE, 0>>

\* fmt.Sprintf("%v", v)
Sprintf(v) == keyString(v)

\* the runes of the operands in the order of their code points
RuneOrder ==
    <<"+", "-", "0", "1", "2", "3", "4", "5", "6", "7", "8", "9", "<", ">",
      "a", "b", "e", "f", "i", "l", "n", "r", "s", "t", "u", "x">>

rank(r) == CHOOSE i \in 1..Len(RuneOrder) : RuneOrder[i] = r

\* a < b on strings: at the first position where they differ, or a is a
\* proper prefix of b
stringLess(a, b) ==
    \/ Len(a) < Len(b) /\ SubSeq(b, 1, Len(a)) = a
    \/ \E i \in 1..Len(a) :
            /\ i <= Len(b)
            /\ SubSeq(a, 1, i - 1) = SubSeq(b, 1, i - 1)
            /\ rank(a[i]) < rank(b[i])

ordered(op, less, equal) ==
    CASE op = GT -> ~less /\ ~equal
      [] op = GE -> ~less
      [] op = LT -> less
      [] op = LE -> less \/ equal

\* an operand that is false is compared like any other value
tolerantOrderingComparesFalse(op, a, b) ==
    LET fa == convertToFloat(a)
        fb == convertToFloat(b)
    IN IF fa[1] /\ fb[1]
       THEN [val |-> Bool(ordered(op, fa[2] < fb[2], fa[2] = fb[2])), err |-> NoError]
       ELSE [val |-> Bool(ordered(op, stringLess(Sprintf(a), Sprintf(b)),
                                  Sprintf(a) = Sprintf(b))),
             err |-> NoError]

\* >, >=, < and <= of enhancedComparisons
tolerantOrdering(op, a, b) ==
    IF a = Bool(FALSE) \/ b = Bool(FALSE)
    THEN [val |-> Bool(FALSE), err |-> NoError]
    ELSE tolerantOrderingComparesFalse(op, a, b)

\* the comparison the closure of == in enhancedComparisons makes
tolerantEqual(aVal, bVal) ==
    IF (aVal = Nil /\ bVal = Bool(FALSE)) \/ (aVal = Bool(FALSE) /\ bVal = Nil)
    THEN Bool(TRUE)
    ELSE IF aVal = Nil /\ bVal = Nil THEN Bool(TRUE)
    ELSE IF aVal = Bool(FALSE) /\ bVal = Bool(FALSE) THEN Bool(TRUE)
    ELSE IF aVal = Nil \/ bVal = Nil \/ aVal = Bool(FALSE) \/ bVal = Bool(FALSE)
    THEN Bool(FALSE)
    ELSE IF convertToFloat(aVal)[1] /\ convertToFloat(bVal)[1]
    THEN Bool(convertToFloat(aVal)[2] = convertToFloat(bVal)[2])
    ELSE IF aVal[1] = "str" /\ bVal[1] = "str" THEN Bool(aVal[2] = bVal[2])
    ELSE IF aVal[1] = "bool" /\ bVal[1] = "bool" THEN Bool(aVal[2] = bVal[2])
    ELSE Bool(DeepEqual(aVal, bVal))

\* != that takes nil and false for different values
tolerantNotEqualStrict(aVal, bVal) ==
    IF aVal = Nil /\ bVal = Nil THEN Bool(FALSE)
    ELSE IF aVal = Bool(FALSE) /\ bVal = Bool(FALSE) THEN Bool(FALSE)
    ELSE IF aVal = Nil \/ bVal = Nil \/ aVal = Bool(FALSE) \/ bVal = Bool(FALSE)
    THEN Bool(TRUE)
    ELSE IF convertToFloat(aVal)[1] /\ convertToFloat(bVal)[1]
    THEN Bool(convertToFloat(aVal)[2] # convertToFloat(bVal)[2])
    ELSE Bool(~DeepEqual(aVal, bVal))

\* the comparison the closure of != in enhancedComparisons makes
tolerantNotEqual(aVal, bVal) ==
    IF (aVal = Nil /\ bVal = Bool(FALSE)) \/ (aVal = Bool(FALSE) /\ bVal = Nil)
    THEN Bool(FALSE)
    ELSE IF aVal = Nil /\ bVal = Nil THEN Bool(FALSE)
    ELSE IF aVal = Bool(FALSE) /\ bVal = Bool(FALSE) THEN Bool(FALSE)
    ELSE IF \/ (aVal = Nil /\ bVal # Nil)
            \/ (bVal = Nil /\ aVal # Nil)
            \/ (aVal = Bool(FALSE) /\ bVal # Bool(FALSE))
            \/ (bVal = Bool(FALSE) /\ aVal # Bool(FALSE))
    THEN Bool(TRUE)
    ELSE IF convertToFloat(aVal)[1] /\ convertToFloat(bVal)[1]
    THEN Bool(convertToFloat(aVal)[2] # convertToFloat(bVal)[2])
    ELSE IF aVal[1] = "str" /\ bVal[1] = "str" THEN Bool(aVal[2] # bVal[2])
    ELSE IF aVal[1] = "bool" /\ bVal[1] = "bool" THEN Bool(aVal[2] # bVal[2])
    ELSE Bool(~DeepEqual(aVal, bVal))

\* the operators TolerantFull takes from enhancedComparisons, on two values
tolerantOperator(op, a, b) ==
    CASE op = EQEQ -> [val |-> tolerantEqual(a, b), err |-> NoError]
      [] op = BANGEQ -> [val |-> tolerantNotEqual(a, b), err |-> NoError]
      [] OTHER -> tolerantOrdering(op, a, b)

----------------------------------------------------------------------------
\* An invocation returns a value and an error, and runs sub-evaluators: calls
\* lists the positions of the Evaluables it ran, in the order they started.
RECURSIVE Invoke(_, _, _)

\* the closure parseIf returns: condition, then exactly one branch
ifEvaluableBoth(e, a, b, v, at) ==
    LET x == Invoke(e, v, Append(at, 1))
        ra == Invoke(a, v, Append(at, 2))
        rb == Invoke(b, v, Append(at, 3))
    IN IF x.err # NoError
       THEN [val |-> Nil, err |-> x.err, calls |-> <<at>> \o x.calls]
       ELSE IF x.val = Nil \/ IsZero(x.val)
       THEN [val |-> rb.val, err |-> rb.err,
             calls |-> <<at>> \o x.calls \o ra.calls \o rb.calls]
       ELSE [val |-> ra.val, err |-> ra.err,
             calls |-> <<at>> \o x.calls \o ra.calls \o rb.calls]

ifEvaluable(e, a, b, v, at) ==
    LET x == Invoke(e, v, Append(at, 1))
    IN IF x.err # NoError
       THEN [val |-> Nil, err |-> x.err, calls |-> <<at>> \o x.calls]
       ELSE IF x.val = Nil \/ IsZero(x.val)
       THEN LET r == Invoke(b, v, Append(at, 3))
            IN [val |-> r.val, err |-> r.err, calls |-> <<at>> \o x.calls \o r.calls]
       ELSE LET r == Invoke(a, v, Append(at, 2))
            IN [val |-> r.val, err |-> r.err, calls |-> <<at>> \o x.calls \o r.calls]

\* the builder of an infix operator without a short-circuit predicate: the
\* left operand, the right operand, then the operator
infixEvaluable(op, a, b, v, at) ==
    LET l == Invoke(a, v, Append(at, 1))
    IN IF l.err # NoError
       THEN [val |-> Nil, err |-> l.err, calls |-> <<at>> \o l.calls]
       ELSE LET r == Invoke(b, v, Append(at, 2))
            IN IF r.err # NoError
               THEN [val |-> Nil, err |-> r.err,
                     calls |-> <<at>> \o l.calls \o r.calls]
               ELSE LET f == infixOperator(op, l.val, r.val)
                    IN [val |-> f.val, err |-> f.err,
                        calls |-> <<at>> \o l.calls \o r.calls]

\* a comparison compiled under TolerantFull: the closures of == and != and
\* the builder of >, >=, < and <= evaluate the left operand, then the right,
\* and return the first error
tolerantEvaluable(op, a, b, v, at) ==
    LET l == Invoke(a, v, Append(at, 1))
    IN IF l.err # NoError
       THEN [val |-> Nil, err |-> l.err, calls |-> <<at>> \o l.calls]
       ELSE LET r == Invoke(b, v, Append(at, 2))
            IN IF r.err # NoError
               THEN [val |-> Nil, err |-> r.err,
                     calls |-> <<at>> \o l.calls \o r.calls]
               ELSE LET f == tolerantOperator(op, l.val, r.val)
                    IN [val |-> f.val, err |-> f.err,
                        calls |-> <<at>> \o l.calls \o r.calls]

\* the builder of an infix operator with a short-circuit predicate: the left
\* operand is evaluated and shown to the predicate; when the predicate does
\* not decide, that value is dropped and both sides are evaluated for the
\* eager form
shortCircuitEvaluable(op, a, b, v, at) ==
    LET l == Invoke(a, v, Append(at, 1))
    IN IF l.err # NoError
       THEN [val |-> Nil, err |-> l.err, calls |-> <<at>> \o l.calls]
       ELSE LET short == shortCircuit(op, l.val)
            IN IF short[2]
               THEN [val |-> short[1], err |-> NoError, calls |-> <<at>> \o l.calls]
               ELSE LET eager == infixEvaluable(op, a, b, v, at)
                    IN [val |-> eager.val, err |-> eager.err,
                        calls |-> <<at>> \o l.calls \o Tail(eager.calls)]

\* every element is evaluated; the first error is returned at the end
RECURSIVE arrayElementsAll(_, _, _, _)
arrayElementsAll(evals, v, at, i) ==
    IF i > Len(evals) THEN [vals |-> <<>>, err |-> NoError, calls |-> <<>>]
    ELSE LET r == Invoke(evals[i], v, Append(at, i))
             rest == arrayElementsAll(evals, v, at, i + 1)
         IN [vals |-> <<r.val>> \o rest.vals,
             err |-> IF r.err # NoError THEN r.err ELSE rest.err,
             calls |-> r.calls \o rest.calls]

\* the loop of the closure parseJSONArray returns, from element i
RECURSIVE arrayElements(_, _, _, _)
arrayElements(evals, v, at, i) ==
    IF i > Len(evals) THEN [vals |-> <<>>, err |-> NoError, calls |-> <<>>]
    ELSE LET r == Invoke(evals[i], v, Append(at, i))
         IN IF r.err # NoError
            THEN [vals |-> <<>>, err |-> r.err, calls |-> r.calls]
            ELSE LET rest == arrayElements(evals, v, at, i + 1)
                 IN [vals |-> <<r.val>> \o rest.vals,
                     err |-> rest.err,
                     calls |-> r.calls \o rest.calls]

\* the closure parseJSONArray returns
arrayEvaluable(evals, v, at) ==
    LET r == arrayElements(evals, v, at, 1)
    IN [val |-> IF r.err # NoError THEN Nil ELSE Arr(r.vals),
        err |-> r.err,
        calls |-> <<at>> \o r.calls]

\* e.key.EvalString: the key is evaluated and turned into a string
EvalString(key, v, at) ==
    LET r == Invoke(key, v, at)
    IN [key |-> IF r.err # NoError THEN <<>> ELSE keyString(r.val),
        err |-> r.err,
        calls |-> r.calls]

\* the loop of the closure parseJSONObject returns, from entry i with the map
\* vs built so far: entry i is <<key, value>>, its key sits at position
\* 2i - 1 and its value at position 2i; the value is evaluated before the key
RECURSIVE objectEntries(_, _, _, _, _)
objectEntries(evals, v, at, i, vs) ==
    IF i > Len(evals) THEN [val |-> StringMap(vs), err |-> NoError, calls |-> <<>>]
    ELSE LET value == Invoke(evals[i][2], v, Append(at, 2 * i))
         IN IF value.err # NoError
            THEN [val |-> Nil, err |-> value.err, calls |-> value.calls]
            ELSE LET key == EvalString(evals[i][1], v, Append(at, 2 * i - 1))
                 IN IF key.err # NoError
                    THEN [val |-> Nil, err |-> key.err,
                          calls |-> value.calls \o key.calls]
                    ELSE LET rest ==
                                objectEntries(evals, v, at, i + 1,
                                              (key.key :> value.val) @@ vs)
                         IN [val |-> rest.val, err |-> rest.err,
                             calls |-> value.calls \o key.calls \o rest.calls]

\* the closure parseJSONObject returns
objectEvaluable(evals, v, at) ==
    LET r == objectEntries(evals, v, at, 1, <<>>)
    IN [val |-> r.val, err |-> r.err, calls |-> <<at>> \o r.calls]

\* path.EvalStrings: the keys are evaluated in order and turned into strings;
\* the first error ends it
RECURSIVE EvalStrings(_, _, _, _)
EvalStrings(path, v, at, i) ==
    IF i > Len(path) THEN [keys |-> <<>>, err |-> NoError, calls |-> <<>>]
    ELSE LET r == Invoke(path[i], v, Append(at, i))
         IN IF r.err # NoError
            THEN [keys |-> <<>>, err |-> r.err, calls |-> r.calls]
            ELSE LET rest == EvalStrings(path, v, at, i + 1)
                 IN [keys |-> <<keyString(r.val)>> \o rest.keys,
                     err |-> rest.err,
                     calls |-> r.calls \o rest.calls]

\* the Evaluable of a variable: the keys, then the walk from the parameter
variableEvaluable(behavior, path, v, at) ==
    LET ks == EvalStrings(path, v, at, 1)
    IN IF ks.err # NoError
       THEN [val |-> Nil, err |-> ks.err, calls |-> <<at>> \o ks.calls]
       ELSE LET r == selectKeys(behavior, ks.keys, 1, v)
            IN [val |-> r.val, err |-> r.err, calls |-> <<at>> \o ks.calls]

Invoke(e, v, at) ==
    CASE e[1] = "const" -> [val |-> e[2], err |-> NoError, calls |-> <<at>>]
      [] e[1] = "fail" -> [val |-> Nil, err |-> e[2], calls |-> <<at>>]
      [] e[1] = "infix" ->
            IF hasShortCircuit(e[2])
            THEN shortCircuitEvaluable(e[2], e[3], e[4], v, at)
            ELSE infixEvaluable(e[2], e[3], e[4], v, at)
      [] e[1] = "if" -> ifEvaluable(e[2], e[3], e[4], v, at)
      [] e[1] = "var" -> variableEvaluable(e[2], e[3], v, at)
      [] e[1] = "array" -> arrayEvaluable(e[2], v, at)
      [] e[1] = "tolerant" -> tolerantEvaluable(e[2], e[3], e[4], v, at)
      [] e[1] = "object" -> objectEvaluable(e[2], v, at)

\* the value at the end of a path of keys is replaced by another
RECURSIVE store(_, _, _, _)
store(v, keys, i, new) ==
    IF i > Len(keys) THEN new
    ELSE IF v[1] = "arr"
    THEN <<v[1], [v[2] EXCEPT ![Atoi(keys[i]) + 1] = store(@, keys, i + 1, new)]>>
    ELSE <<v[1], [v[2] EXCEPT ![keys[i]] = store(@, keys, i + 1, new)]>>

\* The parameter once cfa or cfm has run on the slice found below keys:
\* the slice the operator swapped is the one the parameter holds.
swapped(op, v, ks, l, r) ==
    IF /\ ks.err = NoError
       /\ selectKeys(ErrorOnMissingField, ks.keys, 1, v).err = NoError
       /\ l.err = NoError
       /\ r.err = NoError
    THEN store(v, ks.keys, 1,
               (IF op = CFA THEN cfaOperator(l.val, r.val)
                ELSE cfmOperator(l.val, r.val)).slice)
    ELSE v

\* The parameter after an invocation. A variable hands out the slice the
\* parameter holds, so the elements cfa and cfm swap are the parameter's own;
\* an Evaluable whose root is not a filter over a variable writes nothing.
written(e, v) ==
    IF e[1] = "infix" /\ e[2] \in {CFA, CFM} /\ e[3][1] = "var"
    THEN swapped(e[2], v, EvalStrings(e[3][3], v, <<1>>, 1),
                 Invoke(e[3], v, <<1>>), Invoke(e[4], v, <<2>>))
    ELSE v

\* context.Background() and a context whose cancel function has been called
Background == "Background"
Cancelled == "Cancelled"

\* the number of times an Evaluable is invoked
MaxInvocations == 2

\* the operands an expression under evaluation is built from
Leaves == {Const(v) : v \in Values} \cup {<<"fail", <<"error", n>>>> : n \in 1..2}

NotInvoked == <<>>

\* the most elements of an array literal and entries of an object literal
MaxElements == 2

ArrayLiterals ==
    {<<"array", evals>> : evals \in UNION {[1..n -> Leaves] : n \in 0..MaxElements}}

\* keys and values of object literals
KeyLeaves == {Const(Str(<<"a">>)), Const(Num(1)), <<"fail", <<"error", 1>>>>}
ValueLeaves == {Const(Num(1)), Const(Nil), <<"fail", <<"error", 2>>>>}

ObjectLiterals ==
    {<<"object", evals>> :
        evals \in UNION {[1..n -> KeyLeaves \X ValueLeaves] : n \in 0..MaxElements}}

\* left operands of in: plain values, an int and a sequence
Needles == Values \cup {GoInt(1), Arr(<<Num(1)>>)}

\* right operands of in: sequences, among them the empty one and one that
\* holds a sequence, and values of every other shape
Haystacks ==
    { Arr(<<>>), Arr(<<Num(1)>>), Arr(<<Num(0), Str(<<"a">>)>>),
      Arr(<<Nil, Bool(FALSE), Str(True)>>), Arr(<<GoInt(1), Num(MaxNum)>>),
      Arr(<<Arr(<<>>), Arr(<<Num(1)>>)>>),
      Nil, Bool(TRUE), Num(1), Str(<<"a">>),
      StringMap(<<"a">> :> Num(1)),
      <<"[]string", <<Str(<<"a">>)>>>> }

EvalInit ==
    /\ evaluable \in
        {<<"infix", op, a, b>> : op \in {AND, OR, COALESCE}, a \in Leaves, b \in Leaves}
        \cup {<<"if", e[1], e[2], e[3]>> : e \in Leaves \X Leaves \X Leaves}
        \cup {<<"infix", ELEMENTOF, a, Const(b)>> : a \in Leaves \cup {Const(n) : n \in Needles},
                                            b \in Haystacks}
        \cup {<<"infix", ELEMENTOF, a, b>> :
                a \in {Const(Num(1))}, b \in {<<"fail", <<"error", n>>>> : n \in 1..2}}
        \cup ArrayLiterals
        \cup ObjectLiterals
    /\ parameter = Nil
    /\ ctx \in {Background, Cancelled}
    /\ outcome = NotInvoked
    /\ langA = emptyLanguage
    /\ langB = emptyLanguage
    /\ langC = emptyLanguage
    /\ composed = [n \in {"AB", "ABC", "AB_C"} |-> NotComposed]
    /\ source = <<>>
    /\ pos = 1
    /\ lastScan = [kind |-> "none", text |-> <<>>]
    /\ camouflage = FALSE
    /\ parser = newParser(emptyLanguage)
    /\ operators = noOperators
    /\ frames = <<>>
    /\ ret = <<"none">>
    /\ parsed = <<>>

\* eval(c, parameter) on the compiled Evaluable
InvokeEvaluable ==
    /\ evaluable # <<"none">>
    /\ Len(outcome) < MaxInvocations
    /\ outcome' = Append(outcome, Invoke(evaluable, parameter, <<>>))
    /\ parameter' = written(evaluable, parameter)
    /\ UNCHANGED <<evaluable, ctx, langVars, parserVars>>

EvalNext == InvokeEvaluable

SpecEval == EvalInit /\ [][EvalNext]_vars

----------------------------------------------------------------------------
\* position i of a call among the Evaluables an invocation ran, 0 when not run
firstCall(calls, at) ==
    IF \E i \in 1..Len(calls) : calls[i] = at
    THEN CHOOSE i \in 1..Len(calls) :
            calls[i] = at /\ \A j \in 1..(i - 1) : calls[j] # at
    ELSE 0

invokedInfix == outcome # NotInvoked /\ evaluable[1] = "infix"

\* the left operand decides the operator
leftDecides(op, a) ==
    \/ op = AND /\ a = Bool(FALSE)
    \/ op = OR /\ a = Bool(TRUE)
    \/ op = COALESCE /\ a # Nil /\ a \notin {Bool(FALSE), Num(0), Str(Empty)}

\* C6: once the left operand decides &&, || or ??, the right sub-evaluator is
\* not invoked and the error it would raise is not raised; the left operand is
\* always evaluated before the right
ShortCircuitSkipsRight ==
    invokedInfix =>
        LET op == evaluable[2]
            left == evaluable[3]
            res == outcome[1]
        IN /\ (left[1] = "const" /\ leftDecides(op, left[2])) =>
                /\ firstCall(res.calls, <<2>>) = 0
                /\ res.err = NoError
           /\ firstCall(res.calls, <<1>>) > 0
           /\ firstCall(res.calls, <<2>>) > 0 =>
                firstCall(res.calls, <<1>>) < firstCall(res.calls, <<2>>)

ShortCircuitSkipsRightWitness ==
    /\ invokedInfix
    /\ evaluable[2] = AND
    /\ evaluable[3] = Const(Bool(FALSE))
    /\ evaluable[4][1] = "fail"
    /\ outcome[1].val = Bool(FALSE)
    /\ outcome[1].err = NoError
    /\ outcome[1].calls = << <<>>, <<1>> >>

\* C7: a ?? b returns a whenever a is neither false nor nil, and b otherwise
CoalesceAsDocumented ==
    (invokedInfix /\ evaluable[2] = COALESCE
        /\ evaluable[3][1] = "const" /\ evaluable[4][1] = "const") =>
        /\ outcome[1].err = NoError
        /\ outcome[1].val =
            IF evaluable[3][2] # Bool(FALSE) /\ evaluable[3][2] # Nil
            THEN evaluable[3][2]
            ELSE evaluable[4][2]

invokedIf == outcome # NotInvoked /\ evaluable[1] = "if"

\* C8: the ternary evaluates the condition first, takes it as false exactly
\* when it is nil or the zero value of its type, then evaluates exactly one
\* branch and returns its result; an error of the condition is returned and no
\* branch is evaluated
TernarySelectsOneBranch ==
    invokedIf =>
        LET e == evaluable[2]
            a == evaluable[3]
            b == evaluable[4]
            res == outcome[1]
            ranThen == firstCall(res.calls, <<2>>) > 0
            ranElse == firstCall(res.calls, <<3>>) > 0
            same(r, leaf) ==
                IF leaf[1] = "const"
                THEN r.val = leaf[2] /\ r.err = NoError
                ELSE r.err = leaf[2] /\ r.val = Nil
        IN /\ firstCall(res.calls, <<1>>) = 2
           /\ e[1] = "fail" => (res.err = e[2] /\ ~ranThen /\ ~ranElse)
           /\ (e[1] = "const" /\ e[2] \in {Nil, Bool(FALSE), Num(0), Str(Empty)}) =>
                (ranElse /\ ~ranThen /\ same(res, b))
           /\ (e[1] = "const" /\ e[2] \notin {Nil, Bool(FALSE), Num(0), Str(Empty)}) =>
                (ranThen /\ ~ranElse /\ same(res, a))

TernarySelectsOneBranchWitness ==
    /\ invokedIf
    /\ evaluable[2] = Const(Str(Empty))
    /\ evaluable[3][1] = "fail"
    /\ evaluable[4] = Const(Num(1))
    /\ outcome[1].val = Num(1)
    /\ outcome[1].err = NoError

----------------------------------------------------------------------------
(* The Parser: scanner, stage stack and the parse functions                *)

\* longest expression text drawn rune by rune
MaxLen == 3

\* the digits expression texts are written with
Digits == {"0", "2", "3", "4"}

Whitespace == {" "}

\* the runes expression texts are written in
Alphabet == Digits \cup Whitespace \cup {"+", "*", "%", "?", ":", "(", ")", ",", "]"}

QUESTION == <<"?">>

\* the language parsed: NewLanguage(arithmetic, ternaryOperator), over the
\* operators that can be written in Alphabet
InfixOperators == {PLUS, TIMES, MOD, POWER}

PostfixOperators == {QUESTION}

Operators == InfixOperators \cup PostfixOperators

\* base: the precedence table; a name without an entry has precedence 0
PrecedenceTimesBelowPlus(op) ==
    CASE op = PLUS -> 120
      [] op = TIMES -> 100
      [] op = MOD -> 100
      [] op = POWER -> 200
      [] OTHER -> 0

Precedence(op) ==
    CASE op = PLUS -> 120
      [] op = TIMES -> 150
      [] op = MOD -> 150
      [] op = POWER -> 200
      [] OTHER -> 0

\* what a Language registers under an operator name: an infix operator with
\* its builder, or a postfix operator with its function, and the precedence
infixOp(precedence) == [kind |-> "infix", operatorPrecedence |-> precedence]

postfixOp(precedence) == [kind |-> "postfix", operatorPrecedence |-> precedence]

\* the operators of NewLanguage(arithmetic, ternaryOperator)
arithmeticOperators ==
    [op \in Operators |->
        IF op \in PostfixOperators THEN postfixOp(Precedence(op))
        ELSE infixOp(Precedence(op))]

\* the runes operator names are made of
isSymbolOperation(r) ==
    \E op \in DOMAIN operators : \E i \in 1..Len(op) : op[i] = r

isOperatorPrefix(text) ==
    \E op \in DOMAIN operators :
        Len(op) >= Len(text) /\ SubSeq(op, 1, Len(text)) = text

EOF == [kind |-> "EOF", text |-> <<>>]

\* the scanner skips white space before a token
RECURSIVE skipWhitespace(_, _)
skipWhitespace(src, i) ==
    IF i <= Len(src) /\ src[i] \in Whitespace THEN skipWhitespace(src, i + 1) ELSE i

RECURSIVE endOfDigits(_, _)
endOfDigits(src, i) ==
    IF i <= Len(src) /\ src[i] \in DecimalDigits THEN endOfDigits(src, i + 1) ELSE i

\* the token that starts at or after position i, and the position after it
scanFrom(src, i) ==
    LET start == skipWhitespace(src, i)
    IN IF start > Len(src) THEN [token |-> EOF, next |-> start]
       ELSE IF src[start] \in DecimalDigits
       THEN LET end == endOfDigits(src, start)
            IN [token |-> [kind |-> "Int", text |-> SubSeq(src, start, end - 1)],
                next |-> end]
       ELSE [token |-> [kind |-> "rune", text |-> <<src[start]>>], next |-> start + 1]

\* Parser.Scan: a camouflaged token is returned once more, else the next token
Scan(src, p, last, camo) ==
    IF camo THEN [token |-> last, next |-> p]
    ELSE scanFrom(src, p)

\* Parser.Peek: the rune after the last token, white space included
Peek(src, p) == IF p > Len(src) THEN "" ELSE src[p]

\* strconv.ParseFloat of an Int token
ParseFloat(text) == digitsValue(text)

parseNumber(token) == Const(float64(ParseFloat(token.text)))

\* Parser.Expected
Expected(context, token) == <<"unexpected", token.kind, token.text, context>>

None == <<"none">>

NoBuilder == <<>>

\* a stage: a left operand, the infix builder waiting for its right operand
\* and that operator's precedence
stage(eval, builder, precedence) ==
    [Evaluable |-> eval, infixBuilder |-> builder, operatorPrecedence |-> precedence]

\* stageStack.push: every stage whose precedence is not below the new one's is
\* popped and combined with the new operand, then the new stage is pushed
RECURSIVE push(_, _)
push(stack, b) ==
    IF Len(stack) > 0 /\ stack[Len(stack)].operatorPrecedence >= b.operatorPrecedence
    THEN LET a == stack[Len(stack)]
         IN push(SubSeq(stack, 1, Len(stack) - 1),
                 [b EXCEPT !.Evaluable =
                    <<"infix", a.infixBuilder, a.Evaluable, b.Evaluable>>])
    ELSE Append(stack, b)

\* the stage is put on the stack and nothing is combined
pushStageAppends(stack, st) == Append(stack, st)

\* ParseExpression hands the stage parseOperator returned to stack.push
pushStage(stack, st) == push(stack, st)

\* the calls in progress
expressionFrame == [fn |-> "ParseExpression", pc |-> "operand", stack |-> <<>>,
                    eval |-> None, then |-> None]

parenthesesFrame == [fn |-> "parseParentheses", pc |-> "inner", stack |-> <<>>,
                     eval |-> None, then |-> None]

ifFrame(e) == [fn |-> "parseIf", pc |-> "then", stack |-> <<>>,
               eval |-> e, then |-> None]

\* parseJSONObject at the top of its loop; eval holds the key while the value
\* is parsed
objectFrame == [fn |-> "parseJSONObject", pc |-> "entry", stack |-> <<>>,
                eval |-> None, then |-> None, evals |-> <<>>]

top == frames[Len(frames)]

callers == SubSeq(frames, 1, Len(frames) - 1)

NotParsed == <<>>

\* an error ends every call in progress: each caller returns it unchanged
fail(e) ==
    /\ frames' = <<>>
    /\ ret' = None
    /\ parsed' = <<"error", e>>
    /\ UNCHANGED evaluable

\* ParseExpression returns eval to the function that called it; the outermost
\* call is Parser.parse's, whose result is the compiled Evaluable
return(eval) ==
    IF Len(frames) = 1
    THEN /\ frames' = <<>>
         /\ ret' = None
         /\ parsed' = <<"ok">>
         /\ evaluable' = eval
    ELSE /\ frames' = callers
         /\ ret' = eval
         /\ UNCHANGED <<parsed, evaluable>>

\* an Evaluable handed to the ParseExpression that is waiting for its operand
\* (from ParseNextExpression) or for its operator (from a postfix operator)
resume(stackFrames, eval) ==
    /\ frames' = [stackFrames EXCEPT ![Len(stackFrames)].eval = eval,
                                     ![Len(stackFrames)].pc = "operator"]
    /\ ret' = None
    /\ UNCHANGED <<parsed, evaluable>>

\* ParseExpression's call of ParseNextExpression: one token selects the prefix
\* extension: a number, a parenthesized group, or json's object literal
ParseNextExpression ==
    /\ frames # <<>>
    /\ top.fn = "ParseExpression" /\ top.pc = "operand"
    /\ LET s == Scan(source, pos, lastScan, camouflage)
       IN /\ pos' = s.next
          /\ lastScan' = s.token
          /\ camouflage' = FALSE
          /\ CASE s.token.kind = "Int" -> resume(frames, parseNumber(s.token))
               [] s.token = [kind |-> "rune", text |-> <<"(">>] ->
                    /\ frames' = frames \o <<parenthesesFrame, expressionFrame>>
                    /\ UNCHANGED <<ret, parsed, evaluable>>
               [] s.token = [kind |-> "rune", text |-> <<"{">>] ->
                    /\ frames' = Append(frames, objectFrame)
                    /\ UNCHANGED <<ret, parsed, evaluable>>
               [] OTHER -> fail(Expected("extensions", s.token))
    /\ UNCHANGED <<source, parameter, ctx, outcome, parser, operators, langVars>>

\* parseParentheses after its ParseExpression returned: the group must close
parseParentheses ==
    /\ frames # <<>>
    /\ top.fn = "parseParentheses" /\ ret # None
    /\ LET s == Scan(source, pos, lastScan, camouflage)
       IN /\ pos' = s.next
          /\ lastScan' = s.token
          /\ camouflage' = FALSE
          /\ IF s.token = [kind |-> "rune", text |-> <<")">>]
             THEN resume(callers, ret)
             ELSE fail(Expected("parentheses", s.token))
    /\ UNCHANGED <<source, parameter, ctx, outcome, parser, operators, langVars>>

\* the operator text is the token alone: no rune is added
extendNever(src, p, op) == [op |-> op, next |-> p]

\* the operator text parseOperator reads after token t: runes are added while
\* they are symbol runes and the text stays the prefix of an operator
RECURSIVE extend(_, _, _)
extend(src, p, op) ==
    IF isSymbolOperation(Peek(src, p)) /\ isOperatorPrefix(Append(op, Peek(src, p)))
    THEN extend(src, p + 1, Append(op, Peek(src, p)))
    ELSE [op |-> op, next |-> p]

\* ParseExpression's call of parseOperator, then stack.push of the stage it
\* returns and the test whether the expression has ended
parseOperator ==
    /\ frames # <<>>
    /\ top.fn = "ParseExpression" /\ top.pc = "operator"
    /\ ret = None
    /\ LET s == Scan(source, pos, lastScan, camouflage)
           symbol == s.token.kind = "rune" /\ isSymbolOperation(s.token.text[1])
           e == IF symbol THEN extend(source, s.next, s.token.text)
                ELSE [op |-> s.token.text, next |-> s.next]
           mustOp == symbol /\ Len(e.op) > 1
           registered == symbol /\ e.op \in DOMAIN operators
           ended == pushStage(top.stack, stage(top.eval, NoBuilder, 0))
       IN /\ lastScan' = s.token
          /\ CASE registered /\ operators[e.op].kind = "infix" ->
                    /\ pos' = e.next
                    /\ camouflage' = FALSE
                    /\ frames' = [frames EXCEPT
                            ![Len(frames)].stack =
                                pushStage(top.stack,
                                          stage(top.eval, e.op,
                                                operators[e.op].operatorPrecedence)),
                            ![Len(frames)].eval = None,
                            ![Len(frames)].pc = "operand"]
                    /\ UNCHANGED <<ret, parsed, evaluable>>
               [] registered /\ operators[e.op].kind = "postfix" ->
                    LET reduced == push(top.stack,
                                        stage(top.eval, NoBuilder,
                                              operators[e.op].operatorPrecedence))
                    IN /\ pos' = e.next
                       /\ camouflage' = FALSE
                       /\ frames' =
                            [frames EXCEPT
                                ![Len(frames)].stack = SubSeq(reduced, 1, Len(reduced) - 1),
                                ![Len(frames)].eval = None]
                            \o <<ifFrame(reduced[Len(reduced)].Evaluable), expressionFrame>>
                       /\ UNCHANGED <<ret, parsed, evaluable>>
               [] ~registered /\ mustOp ->
                    /\ pos' = e.next
                    /\ camouflage' = FALSE
                    /\ fail(<<"unknown operator", e.op>>)
               [] OTHER ->
                    /\ pos' = s.next
                    /\ camouflage' = TRUE
                    /\ return(ended[Len(ended)].Evaluable)
    /\ UNCHANGED <<source, parameter, ctx, outcome, parser, operators, langVars>>

\* parseIf after the then-expression: ':' starts the else-expression, the end
\* of the text leaves it the constant nil, any other token is an error
parseIfThenAcceptsAny ==
    /\ frames # <<>>
    /\ top.fn = "parseIf" /\ top.pc = "then" /\ ret # None
    /\ LET s == Scan(source, pos, lastScan, camouflage)
       IN /\ lastScan' = s.token
          /\ IF s.token = [kind |-> "rune", text |-> <<":">>]
             THEN /\ pos' = s.next
                  /\ camouflage' = FALSE
                  /\ frames' = [frames EXCEPT ![Len(frames)].pc = "else",
                                              ![Len(frames)].then = ret]
                               \o <<expressionFrame>>
                  /\ ret' = None
                  /\ UNCHANGED <<parsed, evaluable>>
             ELSE /\ pos' = pos
                  /\ camouflage' = (s.token # EOF)
                  /\ resume(callers, <<"if", top.eval, ret, Const(Nil)>>)
    /\ UNCHANGED <<source, parameter, ctx, outcome, parser, operators, langVars>>

parseIfThen ==
    /\ frames # <<>>
    /\ top.fn = "parseIf" /\ top.pc = "then" /\ ret # None
    /\ LET s == Scan(source, pos, lastScan, camouflage)
       IN /\ pos' = s.next
          /\ lastScan' = s.token
          /\ camouflage' = FALSE
          /\ CASE s.token = [kind |-> "rune", text |-> <<":">>] ->
                    /\ frames' = [frames EXCEPT ![Len(frames)].pc = "else",
                                                ![Len(frames)].then = ret]
                                 \o <<expressionFrame>>
                    /\ ret' = None
                    /\ UNCHANGED <<parsed, evaluable>>
               [] s.token = EOF ->
                    resume(callers, <<"if", top.eval, ret, Const(Nil)>>)
               [] OTHER -> fail(Expected("<> ? <> : <>", s.token))
    /\ UNCHANGED <<source, parameter, ctx, outcome, parser, operators, langVars>>

\* parseIf after the else-expression: the ternary Evaluable is built
parseIfElse ==
    /\ frames # <<>>
    /\ top.fn = "parseIf" /\ top.pc = "else" /\ ret # None
    /\ resume(callers, <<"if", top.eval, top.then, ret>>)
    /\ UNCHANGED <<scanVars, parameter, ctx, outcome, parser, operators, langVars>>

\* parseJSONObject at the top of its loop: ',' is skipped, '}' ends the
\* literal, any other token is handed back and starts a key expression
parseJSONObject ==
    /\ frames # <<>>
    /\ top.fn = "parseJSONObject" /\ top.pc = "entry"
    /\ LET s == Scan(source, pos, lastScan, camouflage)
       IN /\ pos' = s.next
          /\ lastScan' = s.token
          /\ CASE s.token = [kind |-> "rune", text |-> <<",">>] ->
                    /\ camouflage' = FALSE
                    /\ UNCHANGED <<frames, ret, parsed, evaluable>>
               [] s.token = [kind |-> "rune", text |-> <<"}">>] ->
                    /\ camouflage' = FALSE
                    /\ resume(callers, <<"object", top.evals>>)
               [] OTHER ->
                    /\ camouflage' = TRUE
                    /\ frames' = [frames EXCEPT ![Len(frames)].pc = "key"]
                                 \o <<expressionFrame>>
                    /\ UNCHANGED <<ret, parsed, evaluable>>
    /\ UNCHANGED <<source, parameter, ctx, outcome, parser, operators, langVars>>

\* parseJSONObject after the key expression: a token is scanned; err is nil
\* here, so whatever the token is the value expression is parsed next
parseJSONObjectKey ==
    /\ frames # <<>>
    /\ top.fn = "parseJSONObject" /\ top.pc = "key" /\ ret # None
    /\ LET s == Scan(source, pos, lastScan, camouflage)
       IN /\ pos' = s.next
          /\ lastScan' = s.token
          /\ camouflage' = FALSE
          /\ frames' = [frames EXCEPT ![Len(frames)].pc = "value",
                                      ![Len(frames)].eval = ret]
                       \o <<expressionFrame>>
          /\ ret' = None
          /\ UNCHANGED <<parsed, evaluable>>
    /\ UNCHANGED <<source, parameter, ctx, outcome, parser, operators, langVars>>

\* parseJSONObject after the value expression: the pair is appended
parseJSONObjectValue ==
    /\ frames # <<>>
    /\ top.fn = "parseJSONObject" /\ top.pc = "value" /\ ret # None
    /\ frames' = [frames EXCEPT ![Len(frames)].pc = "entry",
                                ![Len(frames)].eval = None,
                                ![Len(frames)].evals =
                                    Append(top.evals, <<top.eval, ret>>)]
    /\ ret' = None
    /\ UNCHANGED <<scanVars, parsed, evaluable, parameter, ctx, outcome, parser,
                   operators, langVars>>

\* the expression texts parsed: every short text over Alphabet, the chains of
\* three operands under two infix operators, bare, spaced and with one group
\* in parentheses, and ternaries with every kind of token after the
\* then-expression
Texts == UNION {[1..n -> Alphabet] : n \in 0..MaxLen}

Operand == {<<d>> : d \in Digits \ {"0"}}

Chains ==
    {a \o op1 \o b \o op2 \o c :
        a \in Operand, op1 \in InfixOperators, b \in Operand,
        op2 \in InfixOperators, c \in Operand}

SpacedChains ==
    {<<"2", " ">> \o op1 \o <<" ", "3", " ">> \o op2 \o <<" ", "4">> :
        op1 \in InfixOperators, op2 \in InfixOperators}

GroupedChains ==
    {<<"(">> \o a \o op1 \o b \o <<")">> \o op2 \o c :
        a \in Operand, op1 \in InfixOperators, b \in Operand,
        op2 \in InfixOperators, c \in Operand}
    \cup
    {a \o op1 \o <<"(">> \o b \o op2 \o c \o <<")">> :
        a \in Operand, op1 \in InfixOperators, b \in Operand,
        op2 \in InfixOperators, c \in Operand}

Followers ==
    {<<>>, <<" ">>, <<":", "4">>, <<":">>, <<")">>, <<"]">>, <<",">>, <<",", "4">>,
     <<"+", "4">>, <<"+", "4", ":", "2">>, <<"?", "4", ":", "2">>, <<"?", "4">>}

Ternaries ==
    {<<c, "?", "3">> \o f : c \in {"0", "2"}, f \in Followers}
    \cup {<<"(", c, "?", "3">> \o f : c \in {"0", "2"}, f \in Followers}
    \cup {<<"(", c, "?", "3">> \o f \o <<")">> : c \in {"0", "2"}, f \in Followers}
    \cup {<<"2", "+", c, "?", "3">> \o f : c \in {"0", "2"}, f \in Followers}

Examples ==
    { <<"2", " ", "*", "*", " ", "3", " ", "*", "*", " ", "2">>,
      <<"2", " ", "*", " ", "3", " ", "+", " ", "4">>,
      <<"(", "2", " ", "+", " ", "3", ")", " ", "*", " ", "4">> }

Sources ==
    Texts \cup Chains \cup SpacedChains \cup GroupedChains \cup Ternaries
        \cup Examples

\* newParser(expression, language), then Parser.parse, which calls
\* ParseExpression: the languages here have no init function
ParseInit ==
    /\ source \in Sources
    /\ pos = 1
    /\ lastScan = [kind |-> "none", text |-> <<>>]
    /\ camouflage = FALSE
    /\ parser = newParser(emptyLanguage)
    /\ operators = arithmeticOperators
    /\ frames = <<expressionFrame>>
    /\ ret = None
    /\ parsed = NotParsed
    /\ evaluable = None
    /\ parameter = Nil
    /\ ctx = Background
    /\ outcome = NotInvoked
    /\ langA = emptyLanguage
    /\ langB = emptyLanguage
    /\ langC = emptyLanguage
    /\ composed = [n \in {"AB", "ABC", "AB_C"} |-> NotComposed]

ParseNext ==
    \/ ParseNextExpression
    \/ parseOperator
    \/ parseParentheses
    \/ parseIfThen
    \/ parseIfElse
    \/ InvokeEvaluable

SpecParse == ParseInit /\ [][ParseNext]_vars

text(string) == source = string

compiledTo(e) == parsed = <<"ok">> /\ evaluable = e

evaluatedTo(v) ==
    /\ parsed = <<"ok">>
    /\ outcome # NotInvoked
    /\ outcome[1].val = v
    /\ outcome[1].err = NoError

----------------------------------------------------------------------------
infix(op, a, b) == <<"infix", op, a, b>>

number(d) == Const(Num(DigitValue[d[1]]))

\* C3: in a chain without parentheses the operator of higher precedence binds
\* tighter than its neighbour of lower precedence whichever comes first, and
\* a group in parentheses is a single operand: "2 + 3 * 4" is 14,
\* "2 * 3 + 4" is 10 and "(2 + 3) * 4" is 20
PrecedenceBindsTighter ==
    /\ (Len(source) >= 5 /\ parsed # NotParsed) =>
       \A a \in Operand, b \in Operand, c \in Operand :
       \A op1 \in InfixOperators, op2 \in InfixOperators :
            /\ (text(a \o op1 \o b \o op2 \o c) /\ parsed # NotParsed) =>
                /\ Precedence(op1) < Precedence(op2) =>
                    compiledTo(infix(op1, number(a), infix(op2, number(b), number(c))))
                /\ Precedence(op1) > Precedence(op2) =>
                    compiledTo(infix(op2, infix(op1, number(a), number(b)), number(c)))
            /\ (text(<<"(">> \o a \o op1 \o b \o <<")">> \o op2 \o c)
                    /\ parsed # NotParsed) =>
                compiledTo(infix(op2, infix(op1, number(a), number(b)), number(c)))
            /\ (text(a \o op1 \o <<"(">> \o b \o op2 \o c \o <<")">>)
                    /\ parsed # NotParsed) =>
                compiledTo(infix(op1, number(a), infix(op2, number(b), number(c))))
    /\ outcome # NotInvoked =>
        /\ text(<<"2", " ", "+", " ", "3", " ", "*", " ", "4">>) => evaluatedTo(Num(14))
        /\ text(<<"2", " ", "*", " ", "3", " ", "+", " ", "4">>) => evaluatedTo(Num(10))
        /\ text(<<"(", "2", " ", "+", " ", "3", ")", " ", "*", " ", "4">>) =>
                evaluatedTo(Num(20))

PrecedenceBindsTighterWitness ==
    /\ text(<<"2", " ", "+", " ", "3", " ", "*", " ", "4">>)
    /\ compiledTo(infix(PLUS, Const(Num(2)), infix(TIMES, Const(Num(3)), Const(Num(4)))))
    /\ evaluatedTo(Num(14))

\* C4: infix operators of equal precedence associate to the left:
\* "a op1 b op2 c" compiles to op2(op1(a, b), c)
EqualPrecedenceBindsLeft ==
    (Len(source) >= 5 /\ parsed # NotParsed) =>
    \A a \in Operand, b \in Operand, c \in Operand :
    \A op1 \in InfixOperators, op2 \in InfixOperators :
        (/\ text(a \o op1 \o b \o op2 \o c)
         /\ Precedence(op1) = Precedence(op2)
         /\ parsed # NotParsed) =>
            compiledTo(infix(op2, infix(op1, number(a), number(b)), number(c)))

EqualPrecedenceBindsLeftWitness ==
    /\ text(<<"4", "%", "3", "*", "2">>)
    /\ compiledTo(infix(TIMES, infix(MOD, Const(Num(4)), Const(Num(3))), Const(Num(2))))

powerChain ==
    \/ text(<<"2", "*", "*", "3", "*", "*", "2">>)
    \/ text(<<"2", " ", "*", "*", " ", "3", " ", "*", "*", " ", "2">>)

\* C5 as claimed: "2 ** 3 ** 2" evaluates to 512
PowerChainIs512 ==
    (powerChain /\ outcome # NotInvoked) => evaluatedTo(Num(512))

\* C5: with ** registered once, at precedence 200, "2 ** 3 ** 2" is combined
\* from the left, (2 ** 3) ** 2, and evaluates to 64
PowerChainIs64 ==
    /\ (powerChain /\ parsed # NotParsed) =>
            compiledTo(infix(POWER, infix(POWER, Const(Num(2)), Const(Num(3))),
                             Const(Num(2))))
    /\ (powerChain /\ outcome # NotInvoked) => evaluatedTo(Num(64))

PowerChainIs64Witness ==
    /\ text(<<"2", " ", "*", "*", " ", "3", " ", "*", "*", " ", "2">>)
    /\ evaluatedTo(Num(64))

\* parseIf has parsed its then-expression and is about to look at the token
\* that follows it
afterThen == frames # <<>> /\ top.fn = "parseIf" /\ top.pc = "then" /\ ret # None

nextToken == Scan(source, pos, lastScan, camouflage).token

Colon == [kind |-> "rune", text |-> <<":">>]

ifWithNilElse ==
    /\ parsed' # <<"error", Expected("<> ? <> : <>", nextToken)>>
    /\ frames' # <<>>
    /\ frames'[Len(frames')].eval = <<"if", top.eval, ret, Const(Nil)>>

\* C9 as claimed: whatever token other than ':' follows the then-expression,
\* the ternary compiles, with the constant nil as its else-branch
TernaryElseDefaultsAnywhere ==
    [][(afterThen /\ nextToken # Colon) => ifWithNilElse]_vars

\* C9: when the end of the text follows the then-expression the ternary
\* compiles with the constant nil as its else-branch; when any token other
\* than ':' follows it (')', ']', ',' or another), compiling fails with a parse
\* error that names the token
TernaryElseDefaultsAtEnd ==
    [][/\ (afterThen /\ nextToken = EOF) => ifWithNilElse
       /\ (afterThen /\ nextToken \notin {Colon, EOF}) =>
            (/\ parsed' = <<"error", Expected("<> ? <> : <>", nextToken)>>
             /\ frames' = <<>>
             /\ evaluable' = None)]_vars

TernaryElseDefaultsAtEndWitness ==
    /\ text(<<"(", "2", "?", "3", ")">>)
    /\ parsed = <<"error", Expected("<> ? <> : <>", [kind |-> "rune", text |-> <<")">>])>>

----------------------------------------------------------------------------
(* Variables: paths of keys resolved against the parameter                 *)

\* longest path of keys
MaxPath == 3

A == <<"a">>
B == <<"b">>

\* the keys of a path: names after a dot, and values between brackets
KeyEvaluables ==
    {Const(Str(A)), Const(Str(B)), Const(Str(<<"x">>)), Const(Str(<<"+", "1">>)),
     Const(Num(0)), Const(Num(1)), Const(Num(5)), Const(Num(-1))}

Paths == UNION {[1..n -> KeyEvaluables] : n \in 1..MaxPath}

Tens == Arr(<<Num(10), Num(20)>>)

\* {"a": {"b": [10, 20]}}
MixedShapes == StringMap(A :> StringMap(B :> Tens))

Parameters ==
    { MixedShapes,
      StringMap(A :> InterfaceMap(B :> Nil)),
      StringMap(A :> Arr(<<StringMap(B :> Num(10)), Tens>>)),
      StringMap(A :> Struct(B :> Tens)),
      StringMap(A :> SelectorValue(B :> Tens)),
      StringMap(A :> Num(10) @@ B :> Arr(<<>>)),
      InterfaceMap(<<"1">> :> Tens @@ A :> Struct(A :> Nil)),
      Struct(A :> Tens @@ B :> StringMap(<<"0">> :> Num(20))),
      Nil }

Behaviors == {ErrorOnMissingField, FalseOnMissingField, NilOnMissingField}

SelectInit ==
    /\ evaluable \in {<<"var", b, p>> : b \in Behaviors, p \in Paths}
    /\ parameter \in Parameters
    /\ ctx \in {Background, Cancelled}
    /\ outcome = NotInvoked
    /\ source = <<>>
    /\ pos = 1
    /\ lastScan = [kind |-> "none", text |-> <<>>]
    /\ camouflage = FALSE
    /\ parser = newParser(emptyLanguage)
    /\ operators = noOperators
    /\ frames = <<>>
    /\ ret = None
    /\ parsed = NotParsed
    /\ langA = emptyLanguage
    /\ langB = emptyLanguage
    /\ langC = emptyLanguage
    /\ composed = [n \in {"AB", "ABC", "AB_C"} |-> NotComposed]

SelectNext == InvokeEvaluable

SpecSelect == SelectInit /\ [][SelectNext]_vars

\* what a value yields for a key, as <<found, value>>: a map its entry, a
\* sequence the element at a whole index from 0 below its length, a record
\* its field
yields(v, k) ==
    CASE v[1] \in {"map[string]interface{}", "map[interface{}]interface{}", "struct"} ->
            IF k \in DOMAIN v[2] THEN <<TRUE, v[2][k]>> ELSE <<FALSE, Nil>>
      [] v[1] = "arr" ->
            IF \E n \in 0..(Len(v[2]) - 1) :
                    k \in {formatDigits(n), <<"+">> \o formatDigits(n)}
                        \/ (n = 0 /\ k = <<"-", "0">>)
            THEN <<TRUE, v[2][1 + CHOOSE n \in 0..(Len(v[2]) - 1) :
                                k \in {formatDigits(n), <<"+">> \o formatDigits(n)}
                                    \/ (n = 0 /\ k = <<"-", "0">>)]>>
            ELSE <<FALSE, Nil>>
      [] OTHER -> <<FALSE, Nil>>

\* the value the first n keys lead to, as <<found, value>>
RECURSIVE reached(_, _, _)
reached(v, keys, n) ==
    IF n = 0 THEN <<TRUE, v>>
    ELSE LET before == reached(v, keys, n - 1)
         IN IF before[1] THEN yields(before[2], keys[n]) ELSE <<FALSE, Nil>>

\* no value on the way is one that resolves its keys itself
plainShapes(v, keys) ==
    \A n \in 0..Len(keys) :
        reached(v, keys, n)[1] => reached(v, keys, n)[2][1] # "Selector"

strictVariable ==
    /\ outcome # NotInvoked
    /\ evaluable[1] = "var"
    /\ evaluable[2] = ErrorOnMissingField

keysOf(path) == [i \in 1..Len(path) |-> keyString(path[i][2])]

\* C10: under ErrorOnMissingField the walk fails at the first key the value
\* reached so far cannot yield, with an error that names the dotted path up to
\* and including that key, whatever keys follow; a path whose keys are all
\* yielded gives the value they lead to: on {"a": {"b": [10, 20]}}, a.b[1] is
\* 20 and a.b[5] fails naming a.b.5
StrictNamesAttemptedPath ==
    (strictVariable /\ plainShapes(parameter, keysOf(evaluable[3]))) =>
        LET keys == keysOf(evaluable[3])
            res == outcome[1]
        IN /\ \A i \in 1..Len(keys) :
                (reached(parameter, keys, i - 1)[1] /\ ~reached(parameter, keys, i)[1]) =>
                    /\ res.err = <<"unknown parameter", Join(SubSeq(keys, 1, i))>>
                    /\ res.val = Nil
           /\ reached(parameter, keys, Len(keys))[1] =>
                /\ res.err = NoError
                /\ res.val = reached(parameter, keys, Len(keys))[2]
           /\ (parameter = MixedShapes /\ keys = <<A, B, <<"1">>>>) =>
                (res.val = Num(20) /\ res.err = NoError)
           /\ (parameter = MixedShapes /\ keys = <<A, B, <<"5">>>>) =>
                res.err = <<"unknown parameter", <<"a", ".", "b", ".", "5">>>>

StrictNamesAttemptedPathWitness ==
    /\ strictVariable
    /\ parameter = MixedShapes
    /\ evaluable[3] = <<Const(Str(A)), Const(Num(5)), Const(Str(B))>>
    /\ outcome[1].err = <<"unknown parameter", <<"a", ".", "5">>>>
    /\ outcome[1].val = Nil

----------------------------------------------------------------------------
permissiveVariable ==
    /\ outcome # NotInvoked
    /\ evaluable[1] = "var"
    /\ evaluable[2] \in {FalseOnMissingField, NilOnMissingField}

sentinel(behavior) == IF behavior = FalseOnMissingField THEN Bool(FALSE) ELSE Nil

\* some key of the path is not yielded by the value reached before it
stepFails(v, keys) ==
    \E i \in 1..Len(keys) : reached(v, keys, i - 1)[1] /\ ~reached(v, keys, i)[1]

\* C11: under FalseOnMissingField and NilOnMissingField a key that a map, a
\* sequence, a record or a plain value cannot yield never gives an error: the
\* variable evaluates to false, respectively nil, with no error, whatever keys
\* follow the failed one; a path that is yielded throughout gives its value
PermissiveYieldsSentinel ==
    (permissiveVariable /\ plainShapes(parameter, keysOf(evaluable[3]))) =>
        LET keys == keysOf(evaluable[3])
            res == outcome[1]
        IN /\ res.err = NoError
           /\ stepFails(parameter, keys) => res.val = sentinel(evaluable[2])
           /\ ~stepFails(parameter, keys) =>
                res.val = reached(parameter, keys, Len(keys))[2]

PermissiveYieldsSentinelWitness ==
    /\ permissiveVariable
    /\ evaluable[2] = FalseOnMissingField
    /\ parameter = MixedShapes
    /\ evaluable[3] = <<Const(Str(A)), Const(Num(5)), Const(Str(B))>>
    /\ outcome[1].val = Bool(FALSE)
    /\ outcome[1].err = NoError

----------------------------------------------------------------------------
invokedIn ==
    /\ outcome # NotInvoked
    /\ evaluable[1] = "infix"
    /\ evaluable[2] = ELEMENTOF
    /\ evaluable[3][1] = "const"
    /\ evaluable[4][1] = "const"

\* the elements of an ordered sequence ([]interface{}), the empty set for a
\* value of any other shape
elements(b) == IF b[1] = "arr" THEN {b[2][i] : i \in 1..Len(b[2])} ELSE {}

\* C12: a in b is true exactly when b is an ordered sequence ([]interface{})
\* one of whose elements has the type and the contents of a, false when b is
\* an ordered sequence without such an element, the empty one included, and
\* a type error without a value when b is nil, a bool, a number, a string, a
\* map or a slice of another element type
InReturnsMembership ==
    invokedIn =>
        LET a == evaluable[3][2]
            b == evaluable[4][2]
            res == outcome[1]
        IN /\ b[1] = "arr" =>
                /\ res.err = NoError
                /\ res.val = Bool(a \in elements(b))
           /\ b[1] # "arr" =>
                /\ res.val = Nil
                /\ res.err # NoError
                /\ res.err[1] = "expected type []interface{} for in operator but got"

InReturnsMembershipWitness ==
    /\ invokedIn
    /\ evaluable[3] = Const(Arr(<<Num(1)>>))
    /\ evaluable[4] = Const(Arr(<<Arr(<<>>), Arr(<<Num(1)>>)>>))
    /\ outcome[1].val = Bool(TRUE)
    /\ outcome[1].err = NoError

----------------------------------------------------------------------------
(* Filters: cfa and cfm applied to slices the parameter holds              *)

\* the keys of the parameter, and the fields of the maps a slice holds
packageNames == <<"p">>
subscriptionDetails == <<"s">>
packageName == <<"n">>
userId == <<"u">>

AB == <<"a", "b">>

OperatorNames ==
    {EQUAL, EQ, EQEQ, EQUALS, NOTEQUAL, NE, NEQ, BANGEQ, STARTSWITH, SW,
     ENDSWITH, EW, CONTAINS, CO, C, <<"l", "i", "k", "e">>}

Targets == {Empty, A, B, AB}

\* [value, operator], and lists cfa does not accept
ArrayArguments ==
    {Arr(<<Str(t), Str(o)>>) : t \in Targets, o \in OperatorNames}
        \cup {Arr(<<Str(A), Str(SW), Str(B)>>), Arr(<<Str(A)>>), Arr(<<>>),
              Arr(<<Num(1), Str(EQ)>>), Arr(<<Str(A), Nil>>), Str(A), Nil}

\* [field, operator, value], and lists cfm does not accept
MapArguments ==
    {Arr(<<Str(f), Str(o), Str(t)>>) :
        f \in {packageName, userId}, o \in OperatorNames, t \in Targets}
        \cup {Arr(<<Str(packageName), Str(EQ)>>), Arr(<<>>),
              Arr(<<Num(1), Str(EQ), Str(A)>>), Arr(<<Str(packageName), Nil, Str(A)>>),
              Arr(<<Str(packageName), Str(EQ), Num(1)>>), Str(A), Nil}

plan(name) == StringMap(packageName :> Str(name))

FilterParameters ==
    { StringMap(packageNames :> Arr(<<Str(B), Str(AB), Str(A)>>)
                @@ subscriptionDetails :> SliceOfMaps(<<plan(B), plan(AB), plan(A)>>)),
      StringMap(packageNames :> Arr(<<Num(1), Str(AB), Str(B), Str(AB)>>)
                @@ subscriptionDetails :>
                    Arr(<<Str(AB), StringMap(packageName :> Num(1)),
                          InterfaceMap(packageName :> Str(AB)),
                          StringMap(userId :> Str(A)), plan(AB)>>)),
      StringMap(packageNames :>
                    SliceOfSlices(<<Arr(<<Num(0)>>), Arr(<<Str(B), Str(AB)>>),
                                    Arr(<<Str(AB)>>)>>)
                @@ subscriptionDetails :> Arr(<<>>)),
      StringMap(packageNames :> Str(AB)
                @@ subscriptionDetails :> SliceOfMaps(<<>>)) }

\* the left operand: a variable of the parameter, or an array literal's value
FilterOperands ==
    {<<"var", b, <<Const(Str(k))>>>> :
        b \in {ErrorOnMissingField, FalseOnMissingField},
        k \in {packageNames, subscriptionDetails, userId}}
        \cup {Const(Arr(<<Str(B), Str(AB)>>))}

FilterInit ==
    /\ evaluable \in
        {<<"infix", CFA, a, Const(b)>> : a \in FilterOperands, b \in ArrayArguments}
        \cup {<<"infix", CFM, a, Const(b)>> : a \in FilterOperands, b \in MapArguments}
    /\ parameter \in FilterParameters
    /\ ctx = Background
    /\ outcome = NotInvoked
    /\ source = <<>>
    /\ pos = 1
    /\ lastScan = [kind |-> "none", text |-> <<>>]
    /\ camouflage = FALSE
    /\ parser = newParser(emptyLanguage)
    /\ operators = noOperators
    /\ frames = <<>>
    /\ ret = None
    /\ parsed = NotParsed
    /\ langA = emptyLanguage
    /\ langB = emptyLanguage
    /\ langC = emptyLanguage
    /\ composed = [n \in {"AB", "ABC", "AB_C"} |-> NotComposed]

FilterNext == InvokeEvaluable

SpecFilter == FilterInit /\ [][FilterNext]_vars

----------------------------------------------------------------------------
\* C13: an invocation leaves the input value as it was: every slice and map
\* reachable from the parameter is the same after any invocation, cfa and cfm
\* included
InvocationLeavesInputUnchanged == [][parameter' = parameter]_vars

\* the left operand of the filter is a variable the parameter holds
filtersVariable ==
    /\ evaluable[1] = "infix"
    /\ evaluable[2] \in {CFA, CFM}
    /\ evaluable[3][1] = "var"
    /\ evaluable[3][3][1][2][2] \in DOMAIN parameter[2]

\* the value the left operand evaluates to
filterOperand ==
    IF evaluable[3][1] = "const" THEN evaluable[3][2]
    ELSE IF filtersVariable THEN parameter[2][evaluable[3][3][1][2][2]]
    ELSE sentinel(evaluable[3][2])

\* the left operand evaluates without an error
filterOperandFound ==
    /\ evaluable[1] = "infix"
    /\ evaluable[2] \in {CFA, CFM}
    /\ evaluable[3][1] = "var" =>
        (filtersVariable \/ evaluable[3][2] # ErrorOnMissingField)

\* the number of strings an argument list starts with
arity(op) == IF op = CFA THEN 2 ELSE 3

wellFormed(op, b) ==
    /\ b[1] = "arr"
    /\ Len(b[2]) >= arity(op)
    /\ \A i \in 1..arity(op) : b[2][i][1] = "str"

\* the slices an operator filters
handles(op, a) ==
    IF op = CFA THEN a[1] \in {"arr", "[][]interface{}"}
    ELSE a[1] \in {"arr", "[]map[string]interface{}"}

\* an element satisfies the condition: for cfa a string, or in a slice of
\* slices some string of the element; for cfm the string a map holds under
\* the field
satisfies(op, a, elem, b) ==
    IF op = CFA
    THEN LET holds(val) ==
                val[1] = "str" /\ matchesCondition(val[2], b[2][1][2], b[2][2][2])
         IN IF a[1] = "[][]interface{}"
            THEN \E j \in 1..Len(elem[2]) : holds(elem[2][j])
            ELSE holds(elem)
    ELSE /\ elem[1] = "map[string]interface{}"
         /\ b[2][1][2] \in DOMAIN elem[2]
         /\ elem[2][b[2][1][2]][1] = "str"
         /\ matchesCondition(elem[2][b[2][1][2]][2], b[2][3][2], b[2][2][2])

matching(op, a, b) ==
    IF handles(op, a) /\ wellFormed(op, b)
    THEN {i \in 1..Len(a[2]) : satisfies(op, a, a[2][i], b)}
    ELSE {}

DocumentedNames ==
    {STARTSWITH, SW, ENDSWITH, EW, EQUAL, EQ, EQEQ, EQUALS, NOTEQUAL, NEQ, BANGEQ,
     CONTAINS, C}

\* C17: the condition names are taken as documented: startswith and sw test
\* the prefix, endswith and ew the suffix, equal, eq, == and equals equality,
\* notequal, neq and != inequality, contains and c containment
ConditionNamesAsDocumented ==
    (/\ outcome # NotInvoked
     /\ filtersVariable
     /\ evaluable[2] = CFA
     /\ parameter[2][packageNames][1] = "arr"
     /\ evaluable[3][3][1][2][2] = packageNames
     /\ wellFormed(CFA, evaluable[4][2])
     /\ evaluable[4][2][2][2][2] \in DocumentedNames) =>
        LET b == evaluable[4][2][2]
            names == parameter[2][packageNames][2]
        IN outcome[1].val =
            Bool(\E i \in 1..Len(names) :
                    /\ names[i][1] = "str"
                    /\ matchesConditionAsDocumented(names[i][2], b[1][2], b[2][2]))

----------------------------------------------------------------------------
\* the error a cancelled context reports
ContextCanceled == <<"context canceled">>

\* C14: an Evaluable that is a ternary, an array literal, an object literal, a
\* variable or an infix expression, invoked with a context that is already
\* cancelled, returns the cancellation error and no value, and runs none of
\* its sub-evaluators
CancelledContextReturnsError ==
    (/\ outcome # NotInvoked
     /\ ctx = Cancelled
     /\ evaluable[1] \in {"if", "array", "object", "var", "infix"}) =>
        /\ outcome[1].err = ContextCanceled
        /\ outcome[1].val = Nil
        /\ outcome[1].calls = << <<>> >>

invokedLiteral == outcome # NotInvoked /\ evaluable[1] \in {"array", "object"}

\* the element expressions of a literal by position: the elements of an
\* array; of an object the key of entry i at 2i - 1 and its value at 2i, which
\* is the order they are written in
children(e) ==
    IF e[1] = "array" THEN e[2]
    ELSE [p \in 1..(2 * Len(e[2])) |-> e[2][(p + 1) \div 2][IF p % 2 = 1 THEN 1 ELSE 2]]

\* the positions in the order the evaluator takes them: an array's from first
\* to last; an object's entry by entry, the value before the key
evaluationOrder(e) ==
    IF e[1] = "array" THEN [p \in 1..Len(e[2]) |-> p]
    ELSE [p \in 1..(2 * Len(e[2])) |-> IF p % 2 = 1 THEN p + 1 ELSE p - 1]

sourceOrder(e) == [p \in 1..Len(children(e)) |-> p]

\* the value of a literal none of whose element expressions fails
literalValue(e) ==
    IF e[1] = "array" THEN Arr([i \in 1..Len(e[2]) |-> e[2][i][2]])
    ELSE LET key(i) == keyString(e[2][i][1][2])
             last(k) == CHOOSE i \in 1..Len(e[2]) :
                            key(i) = k /\ \A j \in 1..Len(e[2]) : key(j) = k => j <= i
         IN StringMap([k \in {key(i) : i \in 1..Len(e[2])} |-> e[2][last(k)][2][2]])

\* the literal takes its element expressions in the given order, stops at the
\* first that fails and returns that error with a nil result
stopsAtFirstError(e, res, order) ==
    LET subs == children(e)
        failing == {n \in 1..Len(order) : subs[order[n]][1] = "fail"}
        f == CHOOSE n \in failing : \A m \in failing : n <= m
        ran == IF failing = {} THEN Len(order) ELSE f
    IN /\ res.calls = << <<>> >> \o [n \in 1..ran |-> <<order[n]>>]
       /\ failing = {} => (res.err = NoError /\ res.val = literalValue(e))
       /\ failing # {} => (res.err = subs[order[f]][2] /\ res.val = Nil)

\* C15 as stated: array and object literals evaluate their element expressions
\* in source order, an object's key before its value, stop at the first that
\* fails, evaluate no later one, and return exactly that error with a nil result
LiteralStopsInSourceOrder ==
    invokedLiteral => stopsAtFirstError(evaluable, outcome[1], sourceOrder(evaluable))

\* C15: array literals evaluate their elements in source order; object
\* literals evaluate their entries in source order and within an entry the
\* value before the key; both stop at the first evaluation that fails, make no
\* later one, and return exactly that error with a nil result
LiteralStopsAtFirstError ==
    invokedLiteral => stopsAtFirstError(evaluable, outcome[1], evaluationOrder(evaluable))

\* in {<failing key>: <failing value>} the error is the value's and the key
\* is never evaluated
LiteralStopsAtFirstErrorWitness ==
    /\ invokedLiteral
    /\ evaluable[1] = "object"
    /\ Len(evaluable[2]) = 1
    /\ evaluable[2][1] = << <<"fail", <<"error", 1>>>>, <<"fail", <<"error", 2>>>> >>
    /\ outcome[1].err = <<"error", 2>>
    /\ outcome[1].val = Nil
    /\ outcome[1].calls = << <<>>, <<2>> >>

----------------------------------------------------------------------------
(* TolerantFull: comparisons over fields that exist and fields that do not *)

foo == <<"f">>
bar == <<"b", "r">>
foo1 == <<"f", "1">>
xyz == <<"x">>
xyz1 == <<"x", "1">>
flag == <<"f", "l">>
none == <<"n">>
baz == <<"b", "a">>

\* {"foo": 10, "bar": "ba", "foo1": {"xyz1": 100}, "flag": false, "none": nil}
TolerantParameter ==
    StringMap(foo :> Num(10) @@ bar :> Str(baz) @@ foo1 :> StringMap(xyz1 :> Num(100))
              @@ flag :> Bool(FALSE) @@ none :> Nil)

\* a variable compiled under TolerantFull, and the same compiled under Full
tolerantVar(path) ==
    <<"var", FalseOnMissingField, [i \in 1..Len(path) |-> Const(Str(path[i]))]>>

strict(e) == IF e[1] = "var" THEN <<"var", ErrorOnMissingField, e[3]>> ELSE e

ExistingFields ==
    {tolerantVar(<<foo>>), tolerantVar(<<bar>>), tolerantVar(<<flag>>),
     tolerantVar(<<none>>), tolerantVar(<<foo1, xyz1>>)}

MissingFields ==
    {tolerantVar(<<foo1, xyz>>), tolerantVar(<<xyz>>), tolerantVar(<<foo, xyz>>)}

Constants ==
    {Const(Num(5)), Const(Num(10)), Const(Str(baz)), Const(Str(A)),
     Const(Bool(TRUE)), Const(Bool(FALSE)), Const(Nil)}

Comparisons == {EQEQ, BANGEQ, GT, GE, LT, LE}

Orderings == {GT, GE, LT, LE}

\* boolean expressions over fields that exist
Propositions ==
    {<<"tolerant", EQEQ, tolerantVar(<<bar>>), Const(Str(baz))>>,
     <<"tolerant", EQEQ, tolerantVar(<<bar>>), Const(Str(A))>>,
     <<"tolerant", GT, tolerantVar(<<foo>>), Const(Num(5))>>,
     <<"tolerant", LE, tolerantVar(<<foo1, xyz1>>), tolerantVar(<<foo>>)>>,
     tolerantVar(<<flag>>),
     Const(Bool(TRUE))}

\* an ordering comparison one of whose operands is a missing field
MissingComparisons ==
    {<<"tolerant", op, m, o>> :
        op \in Orderings, m \in MissingFields, o \in {Const(Num(5)), tolerantVar(<<foo>>)}}
    \cup {<<"tolerant", op, o, m>> :
        op \in Orderings, m \in MissingFields, o \in {Const(Num(5)), tolerantVar(<<foo>>)}}

TolerantInit ==
    /\ evaluable \in
        {<<"tolerant", op, a, b>> :
            op \in Comparisons,
            a \in ExistingFields \cup MissingFields \cup Constants,
            b \in ExistingFields \cup MissingFields \cup Constants}
        \cup {<<"infix", op, c, P>> :
                op \in {AND, OR}, c \in MissingComparisons, P \in Propositions}
    /\ parameter = TolerantParameter
    /\ ctx = Background
    /\ outcome = NotInvoked
    /\ source = <<>>
    /\ pos = 1
    /\ lastScan = [kind |-> "none", text |-> <<>>]
    /\ camouflage = FALSE
    /\ parser = newParser(emptyLanguage)
    /\ operators = noOperators
    /\ frames = <<>>
    /\ ret = None
    /\ parsed = NotParsed
    /\ langA = emptyLanguage
    /\ langB = emptyLanguage
    /\ langC = emptyLanguage
    /\ composed = [n \in {"AB", "ABC", "AB_C"} |-> NotComposed]

TolerantNext == InvokeEvaluable

SpecTolerant == TolerantInit /\ [][TolerantNext]_vars

\* the field a variable refers to is missing from the parameter
missing(e) == e[1] = "var" /\ stepFails(parameter, keysOf(e[3]))

\* C18: a comparison compiled under TolerantFull whose fields all exist gives
\* the value and the error the same comparison gives compiled under Full
TolerantAgreesWithFull ==
    (/\ outcome # NotInvoked
     /\ evaluable[1] = "tolerant"
     /\ evaluable[2] \in {EQEQ, BANGEQ}
     /\ ~missing(evaluable[3])
     /\ ~missing(evaluable[4])) =>
        LET full == Invoke(<<"infix", evaluable[2], strict(evaluable[3]),
                             strict(evaluable[4])>>, parameter, <<>>)
        IN /\ outcome[1].val = full.val
           /\ outcome[1].err = full.err

\* C19: under TolerantFull >, >=, < and <= with a missing field on either
\* side are false without an error; with such a comparison on its left, && is
\* false and || is the value of its right operand P, for every boolean
\* expression P over fields that exist
MissingFieldOrdersFalse ==
    /\ (/\ outcome # NotInvoked
        /\ evaluable[1] = "tolerant"
        /\ evaluable[2] \in Orderings
        /\ (missing(evaluable[3]) \/ missing(evaluable[4]))) =>
            (outcome[1].val = Bool(FALSE) /\ outcome[1].err = NoError)
    /\ (/\ outcome # NotInvoked
        /\ evaluable[1] = "infix"
        /\ evaluable[2] \in {AND, OR}
        /\ evaluable[3] \in MissingComparisons) =>
            /\ outcome[1].err = NoError
            /\ evaluable[2] = AND => outcome[1].val = Bool(FALSE)
            /\ evaluable[2] = OR =>
                outcome[1].val = Invoke(evaluable[4], parameter, <<>>).val

\* foo1.xyz > 5 || bar == "ba" is true
MissingFieldOrdersFalseWitness ==
    /\ outcome # NotInvoked
    /\ evaluable =
        <<"infix", OR, <<"tolerant", GT, tolerantVar(<<foo1, xyz>>), Const(Num(5))>>,
          <<"tolerant", EQEQ, tolerantVar(<<bar>>), Const(Str(baz))>> >>
    /\ outcome[1].val = Bool(TRUE)
    /\ outcome[1].err = NoError

----------------------------------------------------------------------------
(* ParseSublanguage: a nested parse under another Language                 *)

\* the deepest nesting of ParseSublanguage calls
MaxDepth == 2

\* the Languages a nested parse switches to
Sublanguages == {emptyLanguage, [k \in LanguageKeys |-> 1]}

\* settings a Language's init function gives the scanner
Whitespaces == {GoWhitespace, "none"}
Modes == {GoTokens, "ScanIdents"}
IsIdentRunes == {defaultIsIdentRune, "custom"}

\* resetScannerProperties: the scanner is set as for a new Parser
resetScannerProperties(p) ==
    [p EXCEPT !.Whitespace = GoWhitespace, !.Mode = GoTokens,
              !.IsIdentRune = defaultIsIdentRune]

\* a call of ParseSublanguage in progress, with the locals it saved
sublanguageFrame(p) ==
    [fn |-> "ParseSublanguage", curLang |-> p.Language,
     curWhitespace |-> p.Whitespace, curMode |-> p.Mode,
     curIsIdentRune |-> p.IsIdentRune]

\* the scanner's mode is left as the nested parse had it
restoreKeepsMode(p, frame) ==
    [p EXCEPT !.Language = frame.curLang, !.Whitespace = frame.curWhitespace,
              !.IsIdentRune = frame.curIsIdentRune]

\* the deferred function of ParseSublanguage
restore(p, frame) ==
    [p EXCEPT !.Language = frame.curLang, !.Whitespace = frame.curWhitespace,
              !.Mode = frame.curMode, !.IsIdentRune = frame.curIsIdentRune]

\* a panic runs the deferred functions of the calls in progress, innermost first
RECURSIVE unwind(_, _)
unwind(p, fs) ==
    IF fs = <<>> THEN p
    ELSE unwind(restore(p, fs[Len(fs)]), SubSeq(fs, 1, Len(fs) - 1))

Panicked == <<"panic", "can not ParseSublanguage() on camouflaged Parser">>

\* p.ParseSublanguage(c, l) is called
ParseSublanguage ==
    /\ parsed = NotParsed
    /\ Len(frames) < MaxDepth
    /\ \E l \in Sublanguages :
        IF camouflage
        THEN /\ parsed' = Panicked
             /\ parser' = unwind(parser, frames)
             /\ frames' = <<>>
        ELSE /\ frames' = Append(frames, sublanguageFrame(parser))
             /\ parser' = resetScannerProperties([parser EXCEPT !.Language = l])
             /\ UNCHANGED parsed
    /\ UNCHANGED <<source, pos, lastScan, camouflage, ret, evalVars, operators, langVars>>

\* p.parse(c) of the innermost call returns, with an Evaluable or an error
parse ==
    /\ parsed = NotParsed
    /\ frames # <<>>
    /\ \E result \in {"ok", "error"} : ret' = <<result>>
    /\ parser' = restore(parser, frames[Len(frames)])
    /\ frames' = SubSeq(frames, 1, Len(frames) - 1)
    /\ UNCHANGED <<source, pos, lastScan, camouflage, parsed, evalVars, operators, langVars>>

\* the Language at work sets the scanner: SetWhitespace, SetMode,
\* SetIsIdentRuneFunc
SetScanner ==
    /\ parsed = NotParsed
    /\ \E w \in Whitespaces, m \in Modes, i \in IsIdentRunes :
        parser' = [parser EXCEPT !.Whitespace = w, !.Mode = m, !.IsIdentRune = i]
    /\ UNCHANGED <<scanVars, frames, ret, parsed, evalVars, operators, langVars>>

\* p.Camouflage: the token just scanned is handed back
Camouflage ==
    /\ parsed = NotParsed
    /\ ~camouflage
    /\ camouflage' = TRUE
    /\ UNCHANGED <<source, pos, lastScan, parser, frames, ret, parsed, evalVars, operators, langVars>>

\* p.Scan: a token handed back is taken again
ScanCamouflaged ==
    /\ parsed = NotParsed
    /\ camouflage
    /\ camouflage' = FALSE
    /\ UNCHANGED <<source, pos, lastScan, parser, frames, ret, parsed, evalVars, operators, langVars>>

SubInit ==
    /\ parser \in {newParser(l) : l \in Sublanguages}
    /\ operators = noOperators
    /\ camouflage = FALSE
    /\ frames = <<>>
    /\ ret = None
    /\ parsed = NotParsed
    /\ source = <<>>
    /\ pos = 1
    /\ lastScan = [kind |-> "none", text |-> <<>>]
    /\ evaluable = None
    /\ parameter = Nil
    /\ ctx = Background
    /\ outcome = NotInvoked
    /\ langA = emptyLanguage
    /\ langB = emptyLanguage
    /\ langC = emptyLanguage
    /\ composed = [n \in {"AB", "ABC", "AB_C"} |-> NotComposed]

SubNext ==
    \/ ParseSublanguage
    \/ parse
    \/ SetScanner
    \/ Camouflage
    \/ ScanCamouflaged

SpecSub == SubInit /\ [][SubNext]_vars

\* the Language and the scanner settings a call in progress started from
before(frame) ==
    [Language |-> frame.curLang, Whitespace |-> frame.curWhitespace,
     Mode |-> frame.curMode, IsIdentRune |-> frame.curIsIdentRune]

\* C20: a call of ParseSublanguage notes the Language, the whitespace set, the
\* mode and the identifier-rune predicate it starts from, and whenever it
\* ends, with an Evaluable or with an error, the Parser has exactly those
\* again; called with a token handed back it panics and changes nothing: the
\* Language, the scanner and the pending token are as they were
SublanguageRestores ==
    [][/\ Len(frames') > Len(frames) =>
            /\ ~camouflage
            /\ before(frames'[Len(frames')]) = parser
       /\ Len(frames') < Len(frames) =>
            parser' = before(frames[Len(frames') + 1])
       /\ parsed' # parsed =>
            /\ parsed' = Panicked
            /\ camouflage
            /\ UNCHANGED <<scanVars, ret>>
            /\ frames = <<>> => parser' = parser
    ]_vars

\* a nested parse has failed and the Parser has the settings, none of them
\* the scanner's defaults, that it had before the call
SublanguageRestoresWitness ==
    /\ ret = <<"error">>
    /\ frames = <<>>
    /\ parser.Whitespace = "none"
    /\ parser.Mode = "ScanIdents"
    /\ parser.IsIdentRune = "custom"
    /\ parsed = NotParsed

----------------------------------------------------------------------------
(* parseOperator under Languages whose operator names share prefixes       *)

\* the longest run of symbol runes after the operand
MaxSymbols == 3

AMPAMP == <<"&", "&">>

IDENTICAL == <<"=", "=", "=">>

\* base's >, >= and &&: names one of which is the prefix of another, and
\* runes ('=' and '&') that are no operator alone
comparisonOperators ==
    (GT :> infixOp(40)) @@ (GE :> infixOp(40)) @@ (AMPAMP :> infixOp(21))

\* >, && and a three-rune operator a Language adds with InfixOperator: two of
\* its runes are the prefix of an operator and are no operator
identityOperators ==
    (GT :> infixOp(40)) @@ (AMPAMP :> infixOp(21)) @@ (IDENTICAL :> infixOp(40))

Registries == {comparisonOperators, identityOperators}

SymbolTexts == UNION {[1..n -> {">", "=", "&", " "}] : n \in 0..MaxSymbols}

\* an operand, a run of symbol runes and white space, and what follows it
OperatorSources ==
    {<<"2">> \o t \o f : t \in SymbolTexts, f \in {<<>>, <<"3">>, <<",">>}}

OperatorInit ==
    /\ source \in OperatorSources
    /\ operators \in Registries
    /\ pos = 1
    /\ lastScan = [kind |-> "none", text |-> <<>>]
    /\ camouflage = FALSE
    /\ parser = newParser(emptyLanguage)
    /\ frames = <<expressionFrame>>
    /\ ret = None
    /\ parsed = NotParsed
    /\ evaluable = None
    /\ parameter = Nil
    /\ ctx = Background
    /\ outcome = NotInvoked
    /\ langA = emptyLanguage
    /\ langB = emptyLanguage
    /\ langC = emptyLanguage
    /\ composed = [n \in {"AB", "ABC", "AB_C"} |-> NotComposed]

OperatorNext ==
    \/ ParseNextExpression
    \/ parseOperator

SpecOperator == OperatorInit /\ [][OperatorNext]_vars

\* parseOperator is about to scan and the token it will get is a symbol rune
scansSymbol ==
    /\ frames # <<>>
    /\ top.fn = "ParseExpression" /\ top.pc = "operator"
    /\ ~camouflage
    /\ skipWhitespace(source, pos) <= Len(source)
    /\ isSymbolOperation(source[skipWhitespace(source, pos)])

\* where that token starts
symbolStart == skipWhitespace(source, pos)

\* the runs that start with the token: consecutive symbol runes, each longer
\* prefix of the run the prefix of a registered operator
runs ==
    {k \in 1..(Len(source) - symbolStart + 1) :
        \A j \in 2..k :
            /\ isSymbolOperation(source[symbolStart + j - 1])
            /\ isOperatorPrefix(SubSeq(source, symbolStart, symbolStart + j - 1))}

longest == CHOOSE k \in runs : \A other \in runs : other <= k

operatorText == SubSeq(source, symbolStart, symbolStart + longest - 1)

\* C21: after an operand the operator text is the longest run of symbol runes
\* whose prefixes are all prefixes of registered operators (">=" and not ">"
\* then "="); a registered text becomes the operator of the next stage; a
\* text of more than one rune that is not registered fails the compilation
\* with "unknown operator"; a single rune that is not registered is handed
\* back and the expression ends there without an error
LongestOperatorIsRead ==
    [][scansSymbol =>
        IF operatorText \in DOMAIN operators
        THEN /\ frames' # <<>>
             /\ frames'[Len(frames')].pc = "operand"
             /\ frames'[Len(frames')].stack # <<>>
             /\ LET st == frames'[Len(frames')].stack
                IN /\ st[Len(st)].infixBuilder = operatorText
                   /\ st[Len(st)].operatorPrecedence =
                        operators[operatorText].operatorPrecedence
             /\ pos' = symbolStart + longest
             /\ ~camouflage'
             /\ parsed' = NotParsed
        ELSE IF longest > 1
        THEN parsed' = <<"error", <<"unknown operator", operatorText>>>>
        ELSE /\ camouflage'
             /\ lastScan' = [kind |-> "rune", text |-> operatorText]
             /\ parsed' = <<"ok">>
             /\ frames' = <<>>
    ]_vars

\* "2>=3" under base's comparisons: ">=" is the operator awaiting its right
\* operand
LongestOperatorIsReadWitness ==
    /\ source = <<"2", ">", "=", "3">>
    /\ operators = comparisonOperators
    /\ frames # <<>>
    /\ top.pc = "operand"
    /\ top.stack # <<>>
    /\ top.stack[1].infixBuilder = GE
    /\ pos = 4

----------------------------------------------------------------------------
(* ParseExpression under every precedence table                            *)

\* the precedences a Language gives its operators with Precedence(name, n)
Levels == {-1, 0, 1}

StackOperators == {PLUS, TIMES, COALESCE}

\* base's table orders them ?? (0), + (120), * (150); a Language may set any
\* integer for a name
PrecedenceTables ==
    {[op \in StackOperators |-> infixOp(t[op])] : t \in [StackOperators -> Levels]}

\* chains of one, two and three operands
StackSources ==
    {<<"2">>}
    \cup {<<"2">> \o op1 \o <<"3">> : op1 \in StackOperators}
    \cup {<<"2">> \o op1 \o <<"3">> \o op2 \o <<"4">> :
            op1 \in StackOperators, op2 \in StackOperators}

StackInit ==
    /\ source \in StackSources
    /\ operators \in PrecedenceTables
    /\ pos = 1
    /\ lastScan = [kind |-> "none", text |-> <<>>]
    /\ camouflage = FALSE
    /\ parser = newParser(emptyLanguage)
    /\ frames = <<expressionFrame>>
    /\ ret = None
    /\ parsed = NotParsed
    /\ evaluable = None
    /\ parameter = Nil
    /\ ctx = Background
    /\ outcome = NotInvoked
    /\ langA = emptyLanguage
    /\ langB = emptyLanguage
    /\ langC = emptyLanguage
    /\ composed = [n \in {"AB", "ABC", "AB_C"} |-> NotComposed]

StackNext ==
    \/ ParseNextExpression
    \/ parseOperator

SpecStack == StackInit /\ [][StackNext]_vars

\* the operands an Evaluable was built from, left to right
RECURSIVE operands(_)
operands(e) ==
    IF e[1] = "infix" THEN operands(e[3]) \o operands(e[4]) ELSE <<e>>

\* the operands written in the text
RECURSIVE textOperands(_, _)
textOperands(src, i) ==
    IF i > Len(src) THEN <<>>
    ELSE IF src[i] \in DecimalDigits
    THEN <<Const(Num(DigitValue[src[i]]))>> \o textOperands(src, i + 1)
    ELSE textOperands(src, i + 1)

increasing(stack) ==
    \A i \in 1..(Len(stack) - 1) :
        stack[i].operatorPrecedence < stack[i + 1].operatorPrecedence

----------------------------------------------------------------------------
(* Object literals                                                         *)

\* the longest object literal text
MaxObject == 5

ObjectAlphabet == {"{", "}", ":", ",", "2", "3"}

\* the texts that open an object literal
ObjectSources ==
    UNION {{<<"{">> \o t : t \in [1..n -> ObjectAlphabet]} : n \in 0..(MaxObject - 1)}

\* NewLanguage(arithmetic, json) parsing each of them
ObjectInit ==
    /\ source \in ObjectSources
    /\ operators = arithmeticOperators
    /\ pos = 1
    /\ lastScan = [kind |-> "none", text |-> <<>>]
    /\ camouflage = FALSE
    /\ parser = newParser(emptyLanguage)
    /\ frames = <<expressionFrame>>
    /\ ret = None
    /\ parsed = NotParsed
    /\ evaluable = None
    /\ parameter = Nil
    /\ ctx = Background
    /\ outcome = NotInvoked
    /\ langA = emptyLanguage
    /\ langB = emptyLanguage
    /\ langC = emptyLanguage
    /\ composed = [n \in {"AB", "ABC", "AB_C"} |-> NotComposed]

ObjectNext ==
    \/ ParseNextExpression
    \/ parseOperator
    \/ parseJSONObject
    \/ parseJSONObjectKey
    \/ parseJSONObjectValue

SpecObject == ObjectInit /\ [][ObjectNext]_vars

\* the tokens of a text
RECURSIVE tokens(_, _)
tokens(src, i) ==
    LET s == scanFrom(src, i)
    IN IF s.token = EOF THEN <<>> ELSE <<s.token>> \o tokens(src, s.next)

\* the text opens an object literal whose first entries are number ':'
\* number ',' and whose next key, ts[k], is followed by a token that is not
\* ':'
keyWithoutColon ==
    LET ts == tokens(source, 1)
    IN /\ ts[1].text = <<"{">>
       /\ \E k \in 2..(Len(ts) - 1) :
            /\ k % 4 = 2
            /\ \A j \in 2..(k - 1) :
                    CASE j % 4 = 2 -> ts[j].kind = "Int"
                      [] j % 4 = 3 -> ts[j].text = <<":">>
                      [] j % 4 = 0 -> ts[j].kind = "Int"
                      [] OTHER -> ts[j].text = <<",">>
            /\ ts[k].kind = "Int"
            /\ ts[k + 1].text # <<":">>

\* C23: an object literal in which a key expression is followed by a token
\* other than ':' does not compile to an Evaluable: the compilation fails
KeyWithoutColonFails ==
    keyWithoutColon => parsed # <<"ok">>

----------------------------------------------------------------------------
(* == and != on two values, in base and in TolerantFull                    *)

\* nil, false, true, strings, numeric strings, numbers as float64 and as
\* int, sequences and a map
EqualityValues ==
    Values \cup {GoInt(1), Str(<<"1">>), Str(<<"0">>), Arr(<<Num(1)>>),
                 Arr(<<Str(<<"1">>)>>), StringMap(A :> Num(1)),
                 StringMap(A :> GoInt(1))}

\* a == b and a != b compiled under base ("infix") and under TolerantFull
EqualityInit ==
    /\ evaluable \in
        {<<language, op, Const(a), Const(b)>> :
            language \in {"infix", "tolerant"}, op \in {EQEQ, BANGEQ},
            a \in EqualityValues, b \in EqualityValues}
    /\ parameter = Nil
    /\ ctx = Background
    /\ outcome = NotInvoked
    /\ source = <<>>
    /\ pos = 1
    /\ lastScan = [kind |-> "none", text |-> <<>>]
    /\ camouflage = FALSE
    /\ parser = newParser(emptyLanguage)
    /\ operators = noOperators
    /\ frames = <<>>
    /\ ret = None
    /\ parsed = NotParsed
    /\ langA = emptyLanguage
    /\ langB = emptyLanguage
    /\ langC = emptyLanguage
    /\ composed = [n \in {"AB", "ABC", "AB_C"} |-> NotComposed]

EqualityNext == InvokeEvaluable

SpecEquality == EqualityInit /\ [][EqualityNext]_vars

counterpart(op) == IF op = EQEQ THEN BANGEQ ELSE EQEQ

\* C24: in base and in TolerantFull, a != b is the boolean negation of
\* a == b for every two values, and a == b is b == a, a != b is b != a;
\* none of them returns an error
UnequalIsNotEqual ==
    outcome # NotInvoked =>
        LET language == evaluable[1]
            op == evaluable[2]
            a == evaluable[3]
            b == evaluable[4]
            other == Invoke(<<language, counterpart(op), a, b>>, parameter, <<>>)
            mirrored == Invoke(<<language, op, b, a>>, parameter, <<>>)
        IN \A i \in 1..Len(outcome) :
            /\ outcome[i].err = NoError
            /\ outcome[i].val \in {Bool(TRUE), Bool(FALSE)}
            /\ other.err = NoError
            /\ other.val = Bool(~outcome[i].val[2])
            /\ mirrored.err = NoError
            /\ mirrored.val = outcome[i].val

\* under TolerantFull "1" != 1 has been evaluated, to false
UnequalIsNotEqualWitness ==
    /\ evaluable = <<"tolerant", BANGEQ, Const(Str(<<"1">>)), Const(Num(1))>>
    /\ outcome # NotInvoked
    /\ outcome[1].val = Bool(FALSE)
    /\ outcome[1].err = NoError

====
